---- MODULE Spec2Model ----
(***************************************************************************)
(* Model of ovms::SequenceManager (src/src/sequence_manager.{hpp,cpp}):    *)
(* the registry of stateful sequences, its lifecycle operations, the       *)
(* generation of fresh sequence ids and the idle-timeout sweep.            *)
(*                                                                         *)
(* Ids are uint64_t in the code; the model scales the id space to          *)
(* 0..MaxId and keeps the wrap-around of the counter (MaxId + 1 = 0).      *)
(* steady_clock time is counted in ticks, TicksPerSecond ticks per second, *)
(* so that durations shorter than a second exist in the model.             *)
(***************************************************************************)
EXTENDS Integers, FiniteSets, Sequences, TLC

\* ------------------------------------------------------------------ bounds
MaxId == 2
MaxTime == 3
TicksPerSecond == 2
MaxTimeout == 1
MaxSequenceNumber == 1
NumThreads == 2
\* The time of the last creation and memory-state update in LiveSpec.
LastActivity == 1
\* A control input the header defines no meaning for (any value above
\* SEQUENCE_END).
UndefinedControlInput == 3

\* ------------------------------------------------------- program constants
NO_CONTROL_INPUT == 0
SEQUENCE_START == 1
SEQUENCE_END == 2

OK == "OK"
SEQUENCE_MISSING == "SEQUENCE_MISSING"
SEQUENCE_TERMINATED == "SEQUENCE_TERMINATED"
SEQUENCE_ALREADY_EXISTS == "SEQUENCE_ALREADY_EXISTS"
OUT_OF_RANGE == "std::out_of_range"

StatusCodes == {OK, SEQUENCE_MISSING, SEQUENCE_TERMINATED, SEQUENCE_ALREADY_EXISTS}

Ids == 0..MaxId
IdModulus == MaxId + 1
Times == 0..MaxTime
Timeouts == 0..MaxTimeout
SequenceNumbers == 0..MaxSequenceNumber
Threads == 1..NumThreads
ControlInputs ==
    {NO_CONTROL_INPUT, SEQUENCE_START, SEQUENCE_END, UndefinedControlInput}

VARIABLES
    sequences,          \* std::unordered_map<uint64_t, Sequence>
    sequenceIdCounter,  \* uint64_t sequenceIdCounter
    timeout,            \* uint32_t timeout (seconds)
    clock,              \* std::chrono::steady_clock::now(), in ticks
    last,               \* the call just made on the manager and what it returned
    created,            \* history: the ids a successful createSequence inserted
    watched,            \* history: the id whose activity is recorded (0: none)
    activity,           \* history: when the watched sequence was created and
                        \* when its memory state was last updated
    maxSequenceNumber,  \* uint32_t maxSequenceNumber
    mutexOwner,         \* std::mutex mutex: the thread that holds it (0: free)
    threads,            \* where each thread that calls the manager is
    erasure,            \* history: how the watched id last left the registry
    tensorsInfo,        \* RestParser: the declared inputs (name -> shape, type)
    requestBody,        \* the JSON document handed to RestParser::parse
    parser              \* RestParser: the status of parse and the tensors

\* The variables only the specifications further down use; Spec leaves them
\* as they are after construction.
activityVars == <<watched, activity>>
threadVars == <<mutexOwner, threads>>
codecVars == <<tensorsInfo, requestBody, parser>>
otherVars == <<activityVars, maxSequenceNumber, threadVars, erasure, codecVars>>

vars == <<sequences, sequenceIdCounter, timeout, clock, last, created, otherVars>>

\* ------------------------------------------------------------ class Sequence
\* Sequence::Sequence(uint64_t): a fresh sequence is not terminated and its
\* last activity is the time of construction.
Sequence(sequenceId, now) ==
    [sequenceId |-> sequenceId, terminated |-> FALSE, lastActivityTime |-> now]

isTerminated(seq) == seq.terminated

setTerminated(seq) == [seq EXCEPT !.terminated = TRUE]

getLastActivityTime(seq) == seq.lastActivityTime

\* Sequence::updateMemoryState: replaces the memory state (not modelled, it
\* decides nothing here) and refreshes the last activity time.
updateMemoryState(seq, now) == [seq EXCEPT !.lastActivityTime = now]

\* ------------------------------------------------------ std::unordered_map
\* emplace: inserts only when the key is not present yet.
emplace(seqs, id, seq) ==
    IF id \in DOMAIN seqs
    THEN seqs
    ELSE [k \in DOMAIN seqs \cup {id} |-> IF k = id THEN seq ELSE seqs[k]]

erase(seqs, id) == [k \in DOMAIN seqs \ {id} |-> seqs[k]]

\* ---------------------------------------------------- class SequenceManager
sequenceExists(seqs, sequenceId) == sequenceId \in DOMAIN seqs

\* sequences.size()
getSequencesCount(seqs) == Cardinality(DOMAIN seqs)

getSequence(seqs, sequenceId) == seqs[sequenceId]

\* Variant: the termination flag is not looked at.
hasSequenceIgnoringTermination(seqs, sequenceId) ==
    IF ~sequenceExists(seqs, sequenceId) THEN SEQUENCE_MISSING ELSE OK

hasSequence(seqs, sequenceId) ==
    IF ~sequenceExists(seqs, sequenceId)
    THEN SEQUENCE_MISSING
    ELSE IF isTerminated(getSequence(seqs, sequenceId))
         THEN SEQUENCE_TERMINATED
         ELSE OK

\* The scan of getUniqueSequenceId: the counter is incremented (uint64_t,
\* wrapping) while it is 0 or names a present sequence.  fuel bounds the
\* unfolding; found = FALSE stands for the loop that never ends.
RECURSIVE uniqueIdScan(_, _, _)
uniqueIdScan(seqs, counter, fuel) ==
    IF sequenceExists(seqs, counter) \/ counter = 0
    THEN IF fuel = 0
         THEN [found |-> FALSE, counter |-> counter]
         ELSE uniqueIdScan(seqs, (counter + 1) % IdModulus, fuel - 1)
    ELSE [found |-> TRUE, counter |-> counter]

\* Variant: the scan does not skip 0.
RECURSIVE uniqueIdScanAllowingZero(_, _, _)
uniqueIdScanAllowingZero(seqs, counter, fuel) ==
    IF sequenceExists(seqs, counter)
    THEN IF fuel = 0
         THEN [found |-> FALSE, counter |-> counter]
         ELSE uniqueIdScanAllowingZero(seqs, (counter + 1) % IdModulus, fuel - 1)
    ELSE [found |-> TRUE, counter |-> counter]

getUniqueSequenceIdAllowingZero(seqs, counter) ==
    uniqueIdScanAllowingZero(seqs, counter, IdModulus)

\* Variant: the scan skips 0 and does not look at the registry.
getUniqueSequenceIdNotCheckingRegistry(seqs, counter) ==
    [found |-> TRUE, counter |-> IF counter = 0 THEN 1 ELSE counter]

\* Variant: the scan gives up when the counter would overflow.
RECURSIVE uniqueIdScanNotWrapping(_, _, _)
uniqueIdScanNotWrapping(seqs, counter, fuel) ==
    IF sequenceExists(seqs, counter) \/ counter = 0
    THEN IF fuel = 0 \/ counter = MaxId
         THEN [found |-> FALSE, counter |-> counter]
         ELSE uniqueIdScanNotWrapping(seqs, counter + 1, fuel - 1)
    ELSE [found |-> TRUE, counter |-> counter]

getUniqueSequenceIdNotWrapping(seqs, counter) ==
    uniqueIdScanNotWrapping(seqs, counter, IdModulus)

\* Variant: the scan starts after the id issued last.
getUniqueSequenceIdFromNext(seqs, counter) ==
    uniqueIdScan(seqs, (counter + 1) % IdModulus, IdModulus)

getUniqueSequenceId(seqs, counter) == uniqueIdScan(seqs, counter, IdModulus)

\* Variants of createSequence.  The result of a call with id 0 is the same
\* in all of them.
createSequenceGenerated(seqs, counter, now) ==
    LET scan == getUniqueSequenceId(seqs, counter)
    IN  [returns |-> scan.found,
         status |-> OK,
         sequences |-> emplace(seqs, scan.counter, Sequence(scan.counter, now)),
         sequenceIdCounter |-> scan.counter,
         specId |-> scan.counter]

\* Variant: a terminated entry counts as absent and is replaced.
createSequenceReplacingTerminated(seqs, counter, specId, now) ==
    IF specId = 0
    THEN createSequenceGenerated(seqs, counter, now)
    ELSE IF hasSequence(seqs, specId) = OK
         THEN [returns |-> TRUE, status |-> SEQUENCE_ALREADY_EXISTS,
               sequences |-> seqs, sequenceIdCounter |-> counter,
               specId |-> specId]
         ELSE [returns |-> TRUE, status |-> OK,
               sequences |-> [k \in DOMAIN seqs \cup {specId} |->
                                IF k = specId THEN Sequence(specId, now)
                                ELSE seqs[k]],
               sequenceIdCounter |-> counter, specId |-> specId]

\* Variant: the rejected call refreshes the activity time of the entry.
createSequenceRefreshingExisting(seqs, counter, specId, now) ==
    IF specId = 0
    THEN createSequenceGenerated(seqs, counter, now)
    ELSE IF sequenceExists(seqs, specId)
         THEN [returns |-> TRUE, status |-> SEQUENCE_ALREADY_EXISTS,
               sequences |-> [seqs EXCEPT ![specId] =
                                updateMemoryState(seqs[specId], now)],
               sequenceIdCounter |-> counter, specId |-> specId]
         ELSE [returns |-> TRUE, status |-> OK,
               sequences |-> emplace(seqs, specId, Sequence(specId, now)),
               sequenceIdCounter |-> counter, specId |-> specId]

\* Variant: the insertion under an explicit id is left out.
createSequenceWithoutInsert(seqs, counter, specId, now) ==
    IF specId = 0
    THEN createSequenceGenerated(seqs, counter, now)
    ELSE IF sequenceExists(seqs, specId)
         THEN [returns |-> TRUE, status |-> SEQUENCE_ALREADY_EXISTS,
               sequences |-> seqs, sequenceIdCounter |-> counter,
               specId |-> specId]
         ELSE [returns |-> TRUE, status |-> OK,
               sequences |-> seqs, sequenceIdCounter |-> counter,
               specId |-> specId]

\* Variant: an explicit id is inserted with operator[], over a sequence
\* that is there already.
createSequenceOverwriting(seqs, counter, specId, now) ==
    IF specId = 0
    THEN createSequenceGenerated(seqs, counter, now)
    ELSE [returns |-> TRUE, status |-> OK,
          sequences |-> [k \in DOMAIN seqs \cup {specId} |->
                           IF k = specId THEN Sequence(specId, now) ELSE seqs[k]],
          sequenceIdCounter |-> counter, specId |-> specId]

\* Variant: an explicit id is accepted only above the counter, which then
\* moves up to it, so that an id once used is not used again.
createSequenceNeverReusingIds(seqs, counter, specId, now) ==
    IF specId = 0
    THEN createSequenceGenerated(seqs, counter, now)
    ELSE IF sequenceExists(seqs, specId) \/ specId <= counter
         THEN [returns |-> TRUE, status |-> SEQUENCE_ALREADY_EXISTS,
               sequences |-> seqs, sequenceIdCounter |-> counter,
               specId |-> specId]
         ELSE [returns |-> TRUE, status |-> OK,
               sequences |-> emplace(seqs, specId, Sequence(specId, now)),
               sequenceIdCounter |-> specId, specId |-> specId]

\* Variant: the manager enforces the limit itself and refuses a creation
\* once the registry holds maxSequenceNumber sequences.
createSequenceEnforcingLimit(seqs, counter, specId, now) ==
    IF getSequencesCount(seqs) >= maxSequenceNumber
    THEN [returns |-> TRUE, status |-> "MAX_SEQUENCE_NUMBER_REACHED",
          sequences |-> seqs, sequenceIdCounter |-> counter, specId |-> specId]
    ELSE IF specId = 0
         THEN createSequenceGenerated(seqs, counter, now)
         ELSE IF sequenceExists(seqs, specId)
              THEN [returns |-> TRUE, status |-> SEQUENCE_ALREADY_EXISTS,
                    sequences |-> seqs, sequenceIdCounter |-> counter,
                    specId |-> specId]
              ELSE [returns |-> TRUE, status |-> OK,
                    sequences |-> emplace(seqs, specId, Sequence(specId, now)),
                    sequenceIdCounter |-> counter, specId |-> specId]

\* Variant: the insertion looks at what emplace returns and reports a key
\* that was there already.
insertSequenceCheckingEmplace(seqs, sequenceId, now) ==
    IF sequenceExists(seqs, sequenceId)
    THEN [status |-> SEQUENCE_ALREADY_EXISTS, sequences |-> seqs]
    ELSE [status |-> OK,
          sequences |-> emplace(seqs, sequenceId, Sequence(sequenceId, now))]

\* The end of createSequence, in both of its branches: sequences.emplace,
\* whose result is not looked at, and return StatusCode::OK.
insertSequence(seqs, sequenceId, now) ==
    [status |-> OK,
     sequences |-> emplace(seqs, sequenceId, Sequence(sequenceId, now))]

\* Variant: 0 is taken as an id like any other.
createSequenceTakingZeroAsId(seqs, counter, specId, now) ==
    IF sequenceExists(seqs, specId)
    THEN [returns |-> TRUE, status |-> SEQUENCE_ALREADY_EXISTS,
          sequences |-> seqs, sequenceIdCounter |-> counter, specId |-> specId]
    ELSE [returns |-> TRUE, status |-> OK,
          sequences |-> emplace(seqs, specId, Sequence(specId, now)),
          sequenceIdCounter |-> counter, specId |-> specId]

\* createSequence(spec), called at time now.  The result carries the status,
\* the registry and the counter after the call, and the id the spec holds
\* after the call.  returns = FALSE: the scan for a fresh id never ends.
createSequence(seqs, counter, specId, now) ==
    IF specId = 0
    THEN LET scan == getUniqueSequenceId(seqs, counter)
             uniqueSequenceId == scan.counter
         IN  [returns |-> scan.found,
              status |-> OK,
              sequences |-> emplace(seqs, uniqueSequenceId,
                                    Sequence(uniqueSequenceId, now)),
              sequenceIdCounter |-> scan.counter,
              specId |-> uniqueSequenceId]
    ELSE IF sequenceExists(seqs, specId)
         THEN [returns |-> TRUE,
               status |-> SEQUENCE_ALREADY_EXISTS,
               sequences |-> seqs,
               sequenceIdCounter |-> counter,
               specId |-> specId]
         ELSE [returns |-> TRUE,
               status |-> OK,
               sequences |-> emplace(seqs, specId, Sequence(specId, now)),
               sequenceIdCounter |-> counter,
               specId |-> specId]

\* Variant: no hasSequence check; any present entry is terminated again.
terminateSequenceWithoutCheck(seqs, sequenceId) ==
    IF ~sequenceExists(seqs, sequenceId)
    THEN [status |-> SEQUENCE_MISSING, sequences |-> seqs]
    ELSE [status |-> OK,
          sequences |-> [seqs EXCEPT ![sequenceId] =
                            setTerminated(getSequence(seqs, sequenceId))]]

\* Variant: a repeated termination erases the terminated sequence.
terminateSequenceErasingTerminated(seqs, sequenceId) ==
    LET status == hasSequence(seqs, sequenceId)
    IN  IF status = SEQUENCE_MISSING
        THEN [status |-> status, sequences |-> seqs]
        ELSE IF status = SEQUENCE_TERMINATED
             THEN [status |-> status, sequences |-> erase(seqs, sequenceId)]
             ELSE [status |-> OK,
                   sequences |-> [seqs EXCEPT ![sequenceId] =
                                     setTerminated(getSequence(seqs, sequenceId))]]

\* Variant: the entry is reached with operator[], which inserts a missing
\* key, instead of at().
terminateSequenceCreatingMissing(seqs, sequenceId) ==
    LET status == hasSequence(seqs, sequenceId)
    IN  IF status = SEQUENCE_TERMINATED
        THEN [status |-> status, sequences |-> seqs]
        ELSE [status |-> status,
              sequences |-> [k \in DOMAIN seqs \cup {sequenceId} |->
                               IF k = sequenceId
                               THEN [sequenceId |-> sequenceId,
                                     terminated |-> TRUE,
                                     lastActivityTime |-> 0]
                               ELSE seqs[k]]]

terminateSequence(seqs, sequenceId) ==
    LET status == hasSequence(seqs, sequenceId)
    IN  IF status # OK
        THEN [status |-> status, sequences |-> seqs]
        ELSE [status |-> OK,
              sequences |-> [seqs EXCEPT ![sequenceId] =
                                setTerminated(getSequence(seqs, sequenceId))]]

\* Variant: only an active sequence is removed.
removeSequenceOnlyActive(seqs, sequenceId) ==
    IF hasSequence(seqs, sequenceId) = OK
    THEN [status |-> OK, sequences |-> erase(seqs, sequenceId)]
    ELSE [status |-> hasSequence(seqs, sequenceId), sequences |-> seqs]

removeSequence(seqs, sequenceId) ==
    IF sequenceId \in DOMAIN seqs
    THEN [status |-> OK, sequences |-> erase(seqs, sequenceId)]
    ELSE [status |-> SEQUENCE_MISSING, sequences |-> seqs]

\* std::chrono::duration_cast<std::chrono::seconds>(d).count(): the whole
\* seconds of d, rounded toward zero (d in ticks, possibly negative).
durationCastSeconds(d) ==
    IF d >= 0 THEN d \div TicksPerSecond ELSE -((-d) \div TicksPerSecond)

\* Variant: a sequence idle for exactly the timeout is erased too.
timedOutAtTimeout(seq, tmo, currentTime) ==
    durationCastSeconds(currentTime - getLastActivityTime(seq)) >= tmo

\* The condition under which the sweep erases a sequence.  count() is a
\* signed 64-bit value and timeout a uint32_t: the comparison is signed.
timedOut(seq, tmo, currentTime) ==
    durationCastSeconds(currentTime - getLastActivityTime(seq)) > tmo

\* Variant: the sweep passes over terminated sequences.
removeTimedOutSequencesOnlyActive(seqs, tmo, currentTime) ==
    [status |-> OK,
     sequences |-> [k \in {i \in DOMAIN seqs :
                              isTerminated(seqs[i])
                              \/ ~timedOut(seqs[i], tmo, currentTime)}
                      |-> seqs[k]]]

\* Variant: the condition of the sweep is inverted.
removeTimedOutSequencesInverted(seqs, tmo, currentTime) ==
    [status |-> OK,
     sequences |-> [k \in {i \in DOMAIN seqs : timedOut(seqs[i], tmo, currentTime)}
                      |-> seqs[k]]]

removeTimedOutSequences(seqs, tmo, currentTime) ==
    [status |-> OK,
     sequences |-> [k \in {i \in DOMAIN seqs : ~timedOut(seqs[i], tmo, currentTime)}
                      |-> seqs[k]]]

\* Variant: a continuation is admitted for a sequence that is missing.
processRequestedSpecAdmittingMissing(seqs, counter, sequenceControlInput, specId, now) ==
    IF sequenceControlInput = SEQUENCE_START
    THEN createSequence(seqs, counter, specId, now)
    ELSE IF sequenceControlInput = NO_CONTROL_INPUT
         THEN [returns |-> TRUE,
               status |-> IF hasSequence(seqs, specId) = SEQUENCE_TERMINATED
                          THEN SEQUENCE_TERMINATED ELSE OK,
               sequences |-> seqs,
               sequenceIdCounter |-> counter,
               specId |-> specId]
         ELSE LET r == terminateSequence(seqs, specId)
              IN  [returns |-> TRUE,
                   status |-> r.status,
                   sequences |-> r.sequences,
                   sequenceIdCounter |-> counter,
                   specId |-> specId]

\* Variant: SEQUENCE_END erases the sequence instead of marking it.
processRequestedSpecRemovingOnEnd(seqs, counter, sequenceControlInput, specId, now) ==
    IF sequenceControlInput = SEQUENCE_START
    THEN createSequence(seqs, counter, specId, now)
    ELSE IF sequenceControlInput = NO_CONTROL_INPUT
         THEN [returns |-> TRUE,
               status |-> hasSequence(seqs, specId),
               sequences |-> seqs,
               sequenceIdCounter |-> counter,
               specId |-> specId]
         ELSE LET r == removeSequence(seqs, specId)
              IN  [returns |-> TRUE,
                   status |-> r.status,
                   sequences |-> r.sequences,
                   sequenceIdCounter |-> counter,
                   specId |-> specId]

\* Variant: an admitted continuation refreshes the activity time itself.
processRequestedSpecRefreshing(seqs, counter, sequenceControlInput, specId, now) ==
    IF sequenceControlInput = SEQUENCE_START
    THEN createSequence(seqs, counter, specId, now)
    ELSE IF sequenceControlInput = NO_CONTROL_INPUT
         THEN [returns |-> TRUE,
               status |-> hasSequence(seqs, specId),
               sequences |-> IF hasSequence(seqs, specId) = OK
                             THEN [seqs EXCEPT ![specId] =
                                      updateMemoryState(seqs[specId], now)]
                             ELSE seqs,
               sequenceIdCounter |-> counter,
               specId |-> specId]
         ELSE LET r == terminateSequence(seqs, specId)
              IN  [returns |-> TRUE,
                   status |-> r.status,
                   sequences |-> r.sequences,
                   sequenceIdCounter |-> counter,
                   specId |-> specId]

\* Variant: only SEQUENCE_END terminates; a control input without a meaning
\* is handled like no control input.
processRequestedSpecEndingOnlyOnEnd(seqs, counter, sequenceControlInput, specId, now) ==
    IF sequenceControlInput = SEQUENCE_START
    THEN createSequence(seqs, counter, specId, now)
    ELSE IF sequenceControlInput = SEQUENCE_END
         THEN LET r == terminateSequence(seqs, specId)
              IN  [returns |-> TRUE, status |-> r.status,
                   sequences |-> r.sequences,
                   sequenceIdCounter |-> counter, specId |-> specId]
         ELSE [returns |-> TRUE, status |-> hasSequence(seqs, specId),
               sequences |-> seqs, sequenceIdCounter |-> counter,
               specId |-> specId]

processRequestedSpec(seqs, counter, sequenceControlInput, specId, now) ==
    IF sequenceControlInput = SEQUENCE_START
    THEN createSequence(seqs, counter, specId, now)
    ELSE IF sequenceControlInput = NO_CONTROL_INPUT
         THEN [returns |-> TRUE,
               status |-> hasSequence(seqs, specId),
               sequences |-> seqs,
               sequenceIdCounter |-> counter,
               specId |-> specId]
         ELSE LET r == terminateSequence(seqs, specId)
              IN  [returns |-> TRUE,
                   status |-> r.status,
                   sequences |-> r.sequences,
                   sequenceIdCounter |-> counter,
                   specId |-> specId]

\* ------------------------------------------------------------------ state
\* What a call leaves behind for its caller: the operation, its arguments
\* (id: the sequence id passed in, ctl: the control input, now: the time
\* passed to the sweep), the status returned, the id the spec holds after
\* the call, and the registry and the counter as they were when the call
\* was made.  Fields a call does not have are 0.
Call(op, id, ctl, now, status, specId) ==
    [op |-> op, id |-> id, ctl |-> ctl, now |-> now, status |-> status,
     specId |-> specId,
     seqsBefore |-> sequences, counterBefore |-> sequenceIdCounter]

NoCall ==
    [op |-> "none", id |-> 0, ctl |-> 0, now |-> 0, status |-> OK,
     specId |-> 0, seqsBefore |-> <<>>, counterBefore |-> 0]

\* No call is under way: the previous caller has taken its result.
Idle == last = NoCall

\* The watched id has not left the registry.
NoErasure == [by |-> "none", was |-> "ABSENT"]

\* No document has been handed to a parser, and no parse has been made.
NoBody == [type |-> "null"]

NotParsed == [status |-> "none", proto |-> <<>>]

\* The activity history of a sequence that is not in the registry.
NoActivity == [createdAt |-> 0, updated |-> FALSE, updatedAt |-> 0]

\* The constructor leaves an empty registry and seeds the counter with any
\* 64-bit value (initializeSequenceIdCounter).
Init ==
    /\ sequences = <<>>
    /\ sequenceIdCounter \in Ids
    /\ timeout \in Timeouts
    /\ clock = 0
    /\ last = NoCall
    /\ created = {}
    /\ watched = 0
    /\ activity = NoActivity
    /\ maxSequenceNumber = MaxSequenceNumber
    /\ mutexOwner = 0
    /\ erasure = NoErasure
    /\ tensorsInfo = <<>>
    /\ requestBody = NoBody
    /\ parser = NotParsed
    /\ threads = <<>>

\* --------------------------------------------------------------- actions
\* createSequence, hasSequence and terminateSequence are protected; the
\* tests call them through a subclass that exposes them.
CreateSequence(id) ==
    LET r == createSequence(sequences, sequenceIdCounter, id, clock)
    IN  /\ Idle
        /\ r.returns
        /\ sequences' = r.sequences
        /\ sequenceIdCounter' = r.sequenceIdCounter
        /\ last' = Call("createSequence", id, SEQUENCE_START, 0, r.status, r.specId)
        /\ created' = IF r.status = OK THEN created \cup {r.specId} ELSE created
        /\ UNCHANGED <<timeout, clock, otherVars>>

HasSequence(id) ==
    /\ Idle
    /\ last' = Call("hasSequence", id, NO_CONTROL_INPUT, 0,
                    hasSequence(sequences, id), id)
    /\ UNCHANGED <<sequences, sequenceIdCounter, timeout, clock, created, otherVars>>

TerminateSequence(id) ==
    LET r == terminateSequence(sequences, id)
    IN  /\ Idle
        /\ sequences' = r.sequences
        /\ last' = Call("terminateSequence", id, SEQUENCE_END, 0, r.status, id)
        /\ UNCHANGED <<sequenceIdCounter, timeout, clock, created, otherVars>>

RemoveSequence(id) ==
    LET r == removeSequence(sequences, id)
    IN  /\ Idle
        /\ sequences' = r.sequences
        /\ last' = Call("removeSequence", id, 0, 0, r.status, id)
        /\ UNCHANGED <<sequenceIdCounter, timeout, clock, created, otherVars>>

\* The caller passes the time; nothing ties it to the clock.
RemoveTimedOutSequences(currentTime) ==
    LET r == removeTimedOutSequences(sequences, timeout, currentTime)
    IN  /\ Idle
        /\ sequences' = r.sequences
        /\ last' = Call("removeTimedOutSequences", 0, 0, currentTime, r.status, 0)
        /\ UNCHANGED <<sequenceIdCounter, timeout, clock, created, otherVars>>

ProcessRequestedSpec(ctl, id) ==
    LET r == processRequestedSpec(sequences, sequenceIdCounter, ctl, id, clock)
    IN  /\ Idle
        /\ r.returns
        /\ sequences' = r.sequences
        /\ sequenceIdCounter' = r.sequenceIdCounter
        /\ last' = Call("processRequestedSpec", id, ctl, 0, r.status, r.specId)
        /\ created' = IF ctl = SEQUENCE_START /\ r.status = OK
                      THEN created \cup {r.specId}
                      ELSE created
        /\ UNCHANGED <<timeout, clock, otherVars>>

\* getSequence(id).updateMemoryState(newState): at() throws std::out_of_range
\* for an id that is not in the registry.
UpdateMemoryState(id) ==
    /\ Idle
    /\ IF sequenceExists(sequences, id)
       THEN /\ sequences' = [sequences EXCEPT ![id] =
                                updateMemoryState(getSequence(sequences, id), clock)]
            /\ last' = Call("updateMemoryState", id, 0, 0, OK, id)
       ELSE /\ sequences' = sequences
            /\ last' = Call("updateMemoryState", id, 0, 0, OUT_OF_RANGE, id)
    /\ UNCHANGED <<sequenceIdCounter, timeout, clock, created, otherVars>>

SetTimeout(t) ==
    /\ Idle
    /\ timeout' = t
    /\ UNCHANGED <<sequences, sequenceIdCounter, clock, last, created, otherVars>>

\* Time passes (steady_clock is monotonic).
Tick ==
    /\ Idle
    /\ clock < MaxTime
    /\ clock' = clock + 1
    /\ UNCHANGED <<sequences, sequenceIdCounter, timeout, last, created, otherVars>>

\* The caller takes the result of its call.
Return ==
    /\ ~Idle
    /\ last' = NoCall
    /\ UNCHANGED <<sequences, sequenceIdCounter, timeout, clock, created, otherVars>>

Next ==
    \/ \E id \in Ids : CreateSequence(id)
    \/ \E id \in Ids : HasSequence(id)
    \/ \E id \in Ids : TerminateSequence(id)
    \/ \E id \in Ids : RemoveSequence(id)
    \/ \E t \in Times : RemoveTimedOutSequences(t)
    \/ \E ctl \in ControlInputs, id \in Ids : ProcessRequestedSpec(ctl, id)
    \/ \E id \in Ids : UpdateMemoryState(id)
    \/ \E t \in Timeouts : SetTimeout(t)
    \/ Tick
    \/ Return

Spec == Init /\ [][Next]_vars

TypeOK ==
    /\ DOMAIN sequences \subseteq Ids
    /\ \A k \in DOMAIN sequences :
          /\ sequences[k].sequenceId = k
          /\ sequences[k].terminated \in BOOLEAN
          /\ sequences[k].lastActivityTime \in 0..clock
    /\ sequenceIdCounter \in Ids
    /\ timeout \in Timeouts
    /\ clock \in Times
    /\ last.status \in StatusCodes \cup {OUT_OF_RANGE}
    /\ created \subseteq Ids

\* ----------------------------------------------------------------- claims
\* The lifecycle state of id x in registry seqs.
Lifecycle(seqs, x) ==
    IF x \notin DOMAIN seqs THEN "ABSENT"
    ELSE IF seqs[x].terminated THEN "TERMINATED" ELSE "ACTIVE"

AllowedTransitions ==
    {<<"ABSENT", "ACTIVE">>, <<"ACTIVE", "TERMINATED">>,
     <<"ACTIVE", "ABSENT">>, <<"TERMINATED", "ABSENT">>}

\* The idle time, in ticks, of sequence seq at time now.
IdleTicks(seq, now) == now - seq.lastActivityTime

\* Registry b is registry a with the entries under the ids in gone removed
\* and every other entry as it was.
RemovedOnly(a, b, gone) ==
    /\ DOMAIN b = DOMAIN a \ gone
    /\ \A k \in DOMAIN b : b[k] = a[k]

\* Registry b is registry a with one entry added under id x and every other
\* entry as it was.
AddedOnly(a, b, x) ==
    /\ x \notin DOMAIN a
    /\ DOMAIN b = DOMAIN a \cup {x}
    /\ \A k \in DOMAIN a : b[k] = a[k]

\* C1: in every step, for every id, the lifecycle state stays as it is or
\* moves ABSENT->ACTIVE, ACTIVE->TERMINATED, ACTIVE->ABSENT or
\* TERMINATED->ABSENT; no step takes a TERMINATED entry back to ACTIVE.
C1_LifecycleTransitions ==
    [][\A x \in Ids :
          \/ Lifecycle(sequences', x) = Lifecycle(sequences, x)
          \/ <<Lifecycle(sequences, x), Lifecycle(sequences', x)>>
                \in AllowedTransitions]_vars

\* A START has just been refused on a TERMINATED entry, which is still
\* TERMINATED.
C1_Witness ==
    /\ last.op \in {"createSequence", "processRequestedSpec"}
    /\ last.ctl = SEQUENCE_START
    /\ last.id # 0
    /\ Lifecycle(last.seqsBefore, last.id) = "TERMINATED"
    /\ Lifecycle(sequences, last.id) = "TERMINATED"

\* C2: createSequence with a nonzero id that is present (ACTIVE or
\* TERMINATED) returns already-exists and leaves the whole registry, that
\* entry's state and last activity included, as it was.
C2_CreateExistingRejected ==
    (last.op = "createSequence" /\ last.id # 0
        /\ last.id \in DOMAIN last.seqsBefore)
    => /\ last.status = SEQUENCE_ALREADY_EXISTS
       /\ sequences = last.seqsBefore
       /\ Cardinality(DOMAIN sequences) = Cardinality(DOMAIN last.seqsBefore)

\* createSequence was refused on a TERMINATED entry whose last activity lies
\* in the past, with another entry in the registry.
C2_Witness ==
    /\ last.op = "createSequence"
    /\ last.status = SEQUENCE_ALREADY_EXISTS
    /\ Lifecycle(sequences, last.id) = "TERMINATED"
    /\ sequences[last.id].lastActivityTime < clock
    /\ Cardinality(DOMAIN sequences) = 2

\* C3: createSequence with a nonzero id that is absent returns OK and adds
\* exactly one entry, under that id and ACTIVE (hasSequence on it is OK),
\* leaving every other entry as it was.
C3_CreateAbsentInserts ==
    (last.op = "createSequence" /\ last.id # 0
        /\ last.id \notin DOMAIN last.seqsBefore)
    => /\ last.status = OK
       /\ last.specId = last.id
       /\ AddedOnly(last.seqsBefore, sequences, last.id)
       /\ Lifecycle(sequences, last.id) = "ACTIVE"
       /\ hasSequence(sequences, last.id) = OK

\* createSequence inserted an explicit id beside a TERMINATED entry.
C3_Witness ==
    /\ last.op = "createSequence"
    /\ last.id # 0
    /\ last.id \notin DOMAIN last.seqsBefore
    /\ \E k \in DOMAIN last.seqsBefore : last.seqsBefore[k].terminated
    /\ last.id \in DOMAIN sequences

\* C4: a createSequence with id 0 that returns, returns OK, writes into the
\* spec an id that is nonzero and was no key of the registry, and adds an
\* ACTIVE entry under exactly that id; no other entry is touched.
C4_GeneratedIdFresh ==
    (last.op = "createSequence" /\ last.id = 0)
    => /\ last.status = OK
       /\ last.specId # 0
       /\ last.specId \notin DOMAIN last.seqsBefore
       /\ AddedOnly(last.seqsBefore, sequences, last.specId)
       /\ Lifecycle(sequences, last.specId) = "ACTIVE"
       /\ sequences[last.specId].sequenceId = last.specId

\* An id was generated when the counter stood on an id in use, so the scan
\* had to move on.
C4_Witness ==
    /\ last.op = "createSequence"
    /\ last.id = 0
    /\ last.counterBefore \in DOMAIN last.seqsBefore
    /\ last.specId \in DOMAIN sequences

\* C5: hasSequence returns missing for an absent id, terminated for a
\* TERMINATED entry, and OK exactly for an ACTIVE entry.
C5_HasSequenceStatus ==
    last.op = "hasSequence"
    => /\ (last.status = SEQUENCE_MISSING
             <=> Lifecycle(sequences, last.id) = "ABSENT")
       /\ (last.status = SEQUENCE_TERMINATED
             <=> Lifecycle(sequences, last.id) = "TERMINATED")
       /\ (last.status = OK <=> Lifecycle(sequences, last.id) = "ACTIVE")
       /\ sequences = last.seqsBefore

\* hasSequence has just answered terminated.
C5_Witness ==
    /\ last.op = "hasSequence"
    /\ last.status = SEQUENCE_TERMINATED
    /\ last.id \in DOMAIN sequences

\* C6: terminateSequence returns what hasSequence returns on the same
\* registry; when that is OK the entry stays in the registry and is
\* TERMINATED; on an entry that is already TERMINATED it returns
\* terminated, not missing or already-exists.
C6_TerminateSequence ==
    last.op = "terminateSequence"
    => /\ last.status = hasSequence(last.seqsBefore, last.id)
       /\ (last.status = OK
             => /\ Lifecycle(last.seqsBefore, last.id) = "ACTIVE"
                /\ Lifecycle(sequences, last.id) = "TERMINATED"
                /\ DOMAIN sequences = DOMAIN last.seqsBefore)
       /\ (Lifecycle(last.seqsBefore, last.id) = "TERMINATED"
             => /\ last.status = SEQUENCE_TERMINATED
                /\ Lifecycle(sequences, last.id) = "TERMINATED")

\* terminateSequence was called on an entry an earlier call had terminated.
C6_Witness ==
    /\ last.op = "terminateSequence"
    /\ Lifecycle(last.seqsBefore, last.id) = "TERMINATED"
    /\ last.status = SEQUENCE_TERMINATED

\* C7: removeSequence returns missing for an absent id and changes nothing;
\* for a present id, ACTIVE or TERMINATED, it returns OK, the id is absent
\* afterwards and every other entry is as it was.
C7_RemoveSequence ==
    last.op = "removeSequence"
    => IF last.id \in DOMAIN last.seqsBefore
       THEN /\ last.status = OK
            /\ ~sequenceExists(sequences, last.id)
            /\ RemovedOnly(last.seqsBefore, sequences, {last.id})
       ELSE /\ last.status = SEQUENCE_MISSING
            /\ sequences = last.seqsBefore

\* removeSequence removed a TERMINATED entry and left another entry behind.
C7_Witness ==
    /\ last.op = "removeSequence"
    /\ last.status = OK
    /\ Lifecycle(last.seqsBefore, last.id) = "TERMINATED"
    /\ DOMAIN sequences # {}

\* A create (direct or through processRequestedSpec) has just succeeded
\* with id x.
CreatedNow(x) ==
    /\ last.op \in {"createSequence", "processRequestedSpec"}
    /\ last.ctl = SEQUENCE_START
    /\ last.status = OK
    /\ last.specId = x

\* C8: an id is a key of the registry exactly when a successful
\* createSequence inserted it and neither removeSequence nor the sweep has
\* deleted it since: keys appear only through a successful create, which
\* does insert its id; keys disappear only through a successful
\* removeSequence of that id or a sweep; an id never created is absent and
\* hasSequence on it returns missing.
C8_ExistsIffCreatedNotDeleted ==
    /\ DOMAIN sequences \subseteq created
    /\ \A x \in Ids \ created :
          /\ ~sequenceExists(sequences, x)
          /\ hasSequence(sequences, x) = SEQUENCE_MISSING
    /\ ~Idle =>
          \A x \in Ids :
             /\ (x \in DOMAIN sequences /\ x \notin DOMAIN last.seqsBefore)
                   => CreatedNow(x)
             /\ CreatedNow(x) => sequenceExists(sequences, x)
             /\ (x \notin DOMAIN sequences /\ x \in DOMAIN last.seqsBefore)
                   => \/ last.op = "removeSequence" /\ last.id = x
                                                    /\ last.status = OK
                      \/ last.op = "removeTimedOutSequences"
             /\ (last.op = "removeSequence" /\ last.id = x /\ last.status = OK)
                   => ~sequenceExists(sequences, x)

\* The sweep has deleted a created id while an id never created is absent.
C8_Witness ==
    /\ last.op = "removeTimedOutSequences"
    /\ \E x \in created : x \in DOMAIN last.seqsBefore /\ x \notin DOMAIN sequences
    /\ \E y \in Ids \ {0} : y \notin created

\* C9 as stated: after the sweep no entry is left whose idle time, at the
\* resolution of the clock, exceeds the timeout.
C9_NoEntryIdleBeyondTimeout ==
    last.op = "removeTimedOutSequences"
    => \A k \in DOMAIN sequences :
          ~(IdleTicks(sequences[k], last.now) > timeout * TicksPerSecond)

\* C9, amended: after the sweep no entry, ACTIVE or TERMINATED, is left
\* whose idle time in whole seconds (fraction dropped) exceeds the timeout,
\* that is, whose idle time has reached timeout + 1 seconds.
C9_NoEntryIdleWholeSecondsBeyondTimeout ==
    last.op = "removeTimedOutSequences"
    => \A k \in DOMAIN sequences :
          IdleTicks(sequences[k], last.now) < (timeout + 1) * TicksPerSecond

\* The sweep removed a TERMINATED entry and kept an entry that has been
\* idle for longer than the timeout by less than a second.
C9_Witness ==
    /\ last.op = "removeTimedOutSequences"
    /\ \E k \in DOMAIN last.seqsBefore \ DOMAIN sequences :
          last.seqsBefore[k].terminated
    /\ \E k \in DOMAIN sequences :
          IdleTicks(sequences[k], last.now) > timeout * TicksPerSecond

\* C10: the sweep returns OK and keeps, unchanged, every entry whose idle
\* time is at most the timeout (an idle time equal to the timeout and a
\* last activity later than now included).
C10_SweepKeepsRecent ==
    last.op = "removeTimedOutSequences"
    => /\ last.status = OK
       /\ \A k \in DOMAIN last.seqsBefore :
             IdleTicks(last.seqsBefore[k], last.now) <= timeout * TicksPerSecond
             => /\ k \in DOMAIN sequences
                /\ sequences[k] = last.seqsBefore[k]

\* The sweep, with a timeout above 0, kept a TERMINATED entry idle for
\* exactly the timeout and an entry whose last activity is later than now.
C10_Witness ==
    /\ last.op = "removeTimedOutSequences"
    /\ timeout > 0
    /\ \E k \in DOMAIN sequences :
          /\ IdleTicks(sequences[k], last.now) = timeout * TicksPerSecond
          /\ sequences[k].terminated
    /\ \E k \in DOMAIN sequences : sequences[k].lastActivityTime > last.now

\* An admitted continuation: processRequestedSpec with NO_CONTROL_INPUT has
\* returned OK.
AdmittedContinuation ==
    /\ last.op = "processRequestedSpec"
    /\ last.ctl = NO_CONTROL_INPUT
    /\ last.status = OK

C13_ProcessRequestedSpecDispatch ==
    last.op = "processRequestedSpec" =>
        LET create == createSequence(last.seqsBefore, last.counterBefore,
                                     last.id, clock)
            terminate == terminateSequence(last.seqsBefore, last.id)
        IN  /\ last.ctl = SEQUENCE_START =>
                  /\ last.status = create.status
                  /\ sequences = create.sequences
                  /\ sequenceIdCounter = create.sequenceIdCounter
                  /\ last.specId = create.specId
            /\ last.ctl = NO_CONTROL_INPUT =>
                  /\ last.status = hasSequence(last.seqsBefore, last.id)
                  /\ sequences = last.seqsBefore
                  /\ sequenceIdCounter = last.counterBefore
                  /\ last.specId = last.id
            /\ last.ctl = SEQUENCE_END =>
                  /\ last.status = terminate.status
                  /\ sequences = terminate.sequences
                  /\ sequenceIdCounter = last.counterBefore
                  /\ last.specId = last.id
            /\ (last.ctl \in {NO_CONTROL_INPUT, SEQUENCE_END}
                 /\ Lifecycle(last.seqsBefore, last.id) = "ABSENT")
                => last.status = SEQUENCE_MISSING
            /\ (last.ctl = SEQUENCE_START /\ last.id # 0
                 /\ Lifecycle(last.seqsBefore, last.id) # "ABSENT")
                => last.status = SEQUENCE_ALREADY_EXISTS
            /\ (last.ctl = SEQUENCE_END
                 /\ Lifecycle(last.seqsBefore, last.id) = "TERMINATED")
                => last.status = SEQUENCE_TERMINATED

\* processRequestedSpec with SEQUENCE_END has terminated an active sequence.
C13_Witness ==
    /\ last.op = "processRequestedSpec"
    /\ last.ctl = SEQUENCE_END
    /\ last.status = OK
    /\ Lifecycle(last.seqsBefore, last.id) = "ACTIVE"
    /\ Lifecycle(sequences, last.id) = "TERMINATED"

\* A call of hasSequence, terminateSequence, removeSequence or
\* processRequestedSpec with NO_CONTROL_INPUT or SEQUENCE_END has returned
\* missing or terminated.
FailedLookup ==
    /\ \/ last.op \in {"hasSequence", "terminateSequence", "removeSequence"}
       \/ /\ last.op = "processRequestedSpec"
          /\ last.ctl \in {NO_CONTROL_INPUT, SEQUENCE_END}
    /\ last.status \in {SEQUENCE_MISSING, SEQUENCE_TERMINATED}

\* C14: a call of hasSequence, terminateSequence, removeSequence or
\* processRequestedSpec(NONE/END) that returns missing or terminated leaves
\* the manager as it was: the same keys, every entry as it was, the same
\* counter; a failed call on an absent id creates no entry.
C14_FailureLeavesStateUnchanged ==
    FailedLookup =>
        /\ sequences = last.seqsBefore
        /\ sequenceIdCounter = last.counterBefore
        /\ last.id \notin DOMAIN last.seqsBefore => last.id \notin DOMAIN sequences

\* A repeated SEQUENCE_END is refused as terminated in a registry that
\* holds another sequence too.
C14_Witness ==
    /\ last.op = "processRequestedSpec"
    /\ last.ctl = SEQUENCE_END
    /\ last.status = SEQUENCE_TERMINATED
    /\ Cardinality(DOMAIN last.seqsBefore) > 1
    /\ sequences = last.seqsBefore

\* C15: every operation, called in any reachable state with any id,
\* getSequence on an absent id included, completes by returning OK, missing,
\* already-exists or terminated; none ends in an exception.
C15_EveryCallReturnsStatus ==
    last.status \in StatusCodes

\* Some nonzero id of the counter's width is not in the registry.
SomeIdFree(seqs) == \E x \in Ids \ {0} : ~sequenceExists(seqs, x)

\* C26: fresh-id generation terminates whenever some nonzero id is absent
\* from the registry, from every value of the counter and through the
\* overflow of the counter to 0, which is skipped; the id it ends on is
\* nonzero and absent.  It does not terminate only when every nonzero id
\* is present, and a createSequence(0) that returned found some id free and
\* issued the id the scan ends on.
C26_FreshIdGenerationTerminates ==
    /\ Idle =>
          \A c \in Ids :
              LET scan == getUniqueSequenceId(sequences, c)
              IN  /\ scan.found <=> SomeIdFree(sequences)
                  /\ scan.found => /\ scan.counter # 0
                                   /\ ~sequenceExists(sequences, scan.counter)
    /\ (last.op = "createSequence" /\ last.id = 0)
       => /\ SomeIdFree(last.seqsBefore)
          /\ last.specId = getUniqueSequenceId(last.seqsBefore,
                                               last.counterBefore).counter

\* An id was generated by a scan that started on an id in use above the
\* id it found: the counter overflowed and passed 0.
C26_Witness ==
    /\ last.op = "createSequence"
    /\ last.id = 0
    /\ last.counterBefore \in DOMAIN last.seqsBefore
    /\ last.specId < last.counterBefore
    /\ last.specId \in DOMAIN sequences

\* Every nonzero id is in the registry: a createSequence(0) made now does
\* not return.
C26_RegistryFull ==
    /\ Idle
    /\ ~SomeIdFree(sequences)
    /\ ~ENABLED CreateSequence(0)

\* The call just made looks id 0 up: hasSequence, terminateSequence or
\* removeSequence with 0, or a request with 0 that is not a START.
LookedUpZero ==
    /\ last.id = 0
    /\ \/ last.op \in {"hasSequence", "terminateSequence", "removeSequence"}
       \/ last.op = "processRequestedSpec" /\ last.ctl # SEQUENCE_START

\* C28: 0 is never a key of the registry: no operation inserts an entry
\* under 0 (a START with id 0 is issued a nonzero id), so every lookup of 0,
\* by hasSequence, terminateSequence, removeSequence or a request that is
\* not a START, returns missing and changes nothing.
C28_ZeroNeverAKey ==
    /\ ~sequenceExists(sequences, 0)
    /\ LookedUpZero
       => /\ last.status = SEQUENCE_MISSING
          /\ sequences = last.seqsBefore

\* removeSequence(0) was called on a registry that holds every nonzero id,
\* each of them created since construction.
C28_Witness ==
    /\ LookedUpZero
    /\ last.op = "removeSequence"
    /\ ~SomeIdFree(sequences)
    /\ created = Ids \ {0}

\* A control input that is neither START nor none.
TakenAsEnd(ctl) == ctl \notin {SEQUENCE_START, NO_CONTROL_INPUT}

ActivityInit ==
    /\ sequences = <<>>
    /\ sequenceIdCounter \in Ids
    /\ timeout \in Timeouts
    /\ clock = 0
    /\ last = NoCall
    /\ created = {}
    /\ watched \in Ids \ {0}
    /\ activity = NoActivity
    /\ maxSequenceNumber = MaxSequenceNumber
    /\ mutexOwner = 0
    /\ erasure = NoErasure
    /\ tensorsInfo = <<>>
    /\ requestBody = NoBody
    /\ parser = NotParsed
    /\ threads = <<>>

CreatedAt(now) == [createdAt |-> now, updated |-> FALSE, updatedAt |-> now]

WatchedProcessRequestedSpec(ctl, id) ==
    LET r == processRequestedSpec(sequences, sequenceIdCounter, ctl, id, clock)
    IN  /\ Idle
        /\ r.returns
        /\ sequences' = r.sequences
        /\ sequenceIdCounter' = r.sequenceIdCounter
        /\ activity' = IF ctl = SEQUENCE_START /\ r.status = OK /\ r.specId = watched
                        THEN CreatedAt(clock)
                        ELSE activity
        /\ UNCHANGED <<timeout, clock, last, created, watched,
                   maxSequenceNumber, threadVars,
                       erasure, codecVars>>

\* The request holds the lock from hasSequence to getSequence, so the
\* sequence it updates is in the registry.
WatchedUpdateMemoryState(id) ==
    /\ Idle
    /\ sequenceExists(sequences, id)
    /\ sequences' = [sequences EXCEPT ![id] =
                        updateMemoryState(getSequence(sequences, id), clock)]
    /\ activity' = IF id = watched
                    THEN [activity EXCEPT !.updated = TRUE, !.updatedAt = clock]
                    ELSE activity
    /\ UNCHANGED <<sequenceIdCounter, timeout, clock, last, created, watched,
                   maxSequenceNumber, threadVars,
                       erasure, codecVars>>

WatchedRemoveSequence(id) ==
    LET r == removeSequence(sequences, id)
    IN  /\ Idle
        /\ sequences' = r.sequences
        /\ activity' = IF id = watched THEN NoActivity ELSE activity
        /\ UNCHANGED <<sequenceIdCounter, timeout, clock, last, created, watched,
                   maxSequenceNumber, threadVars,
                       erasure, codecVars>>

\* The caller of the sweep takes its result; the history of a sequence the
\* sweep erased ends here.
WatchedReturn ==
    /\ ~Idle
    /\ last' = NoCall
    /\ activity' = IF watched \in DOMAIN sequences THEN activity ELSE NoActivity
    /\ UNCHANGED <<sequences, sequenceIdCounter, timeout, clock, created, watched,
                   maxSequenceNumber, threadVars,
                       erasure, codecVars>>

ActivityNext ==
    \/ \E ctl \in ControlInputs, id \in Ids : WatchedProcessRequestedSpec(ctl, id)
    \/ \E id \in Ids : WatchedUpdateMemoryState(id)
    \/ \E id \in Ids : WatchedRemoveSequence(id)
    \/ RemoveTimedOutSequences(clock)
    \/ \E t \in Timeouts : SetTimeout(t)
    \/ Tick
    \/ WatchedReturn

ActivitySpec == ActivityInit /\ [][ActivityNext]_vars

\* The recorded history is the history of the registry's entry.
ActivityTypeOK ==
    /\ watched \in Ids \ {0}
    /\ activity.createdAt \in Times
    /\ activity.updatedAt \in Times
    /\ activity.updated \in BOOLEAN
    /\ activity.createdAt <= activity.updatedAt
    /\ last.op \in {"none", "removeTimedOutSequences"}

\* The watched sequence was in the registry when the sweep was called.
SweptWatched ==
    /\ last.op = "removeTimedOutSequences"
    /\ watched \in DOMAIN last.seqsBefore

\* C11 (as stated): the sweep measures idle time from the last memory-state
\* update, not from creation: a sequence updated at time t survives every
\* sweep with now <= t + timeout, and a sequence never updated is removed by
\* a sweep once now exceeds its creation time by more than the timeout.
C11_IdleSinceLastUpdate ==
    SweptWatched =>
        /\ (activity.updated
             /\ last.now <= activity.updatedAt + timeout * TicksPerSecond)
            => watched \in DOMAIN sequences
        /\ (~activity.updated
             /\ last.now - activity.createdAt > timeout * TicksPerSecond)
            => watched \notin DOMAIN sequences

\* C11 (amended): a sequence updated at time t survives every sweep with
\* now <= t + timeout, however long ago it was created; a sequence never
\* updated is removed by a sweep once the whole seconds since its creation
\* exceed the timeout, that is from timeout + 1 seconds on.
C11_IdleWholeSecondsSinceLastUpdate ==
    SweptWatched =>
        /\ (activity.updated
             /\ last.now <= activity.updatedAt + timeout * TicksPerSecond)
            => watched \in DOMAIN sequences
        /\ (~activity.updated
             /\ last.now - activity.createdAt >= (timeout + 1) * TicksPerSecond)
            => watched \notin DOMAIN sequences

\* A sweep keeps the watched sequence, updated after its creation, at a time
\* more than the timeout after its creation, and erases a sequence whose
\* last activity is the time the watched one was created.
C11_Witness ==
    /\ SweptWatched
    /\ activity.updated
    /\ activity.createdAt < activity.updatedAt
    /\ last.now - activity.createdAt >= (timeout + 1) * TicksPerSecond
    /\ watched \in DOMAIN sequences
    /\ \E b \in DOMAIN last.seqsBefore \ DOMAIN sequences :
          last.seqsBefore[b].lastActivityTime = activity.createdAt

\* ------------------------------------------------------------ the limit
\* CapacitySpec adds the configured limit of sequences to the operations of
\* Spec.  No operation reads the clock for the limit: time stands still at
\* the time of construction, and the sweep is still called with any time.
getMaxSequenceNumber == maxSequenceNumber

setMaxSequenceNumber(maxSequenceNumberArg) == maxSequenceNumberArg

CapacityInit ==
    /\ sequences = <<>>
    /\ sequenceIdCounter \in Ids
    /\ timeout \in Timeouts
    /\ clock = 0
    /\ last = NoCall
    /\ created = {}
    /\ watched = 0
    /\ activity = NoActivity
    /\ maxSequenceNumber \in SequenceNumbers
    /\ mutexOwner = 0
    /\ erasure = NoErasure
    /\ tensorsInfo = <<>>
    /\ requestBody = NoBody
    /\ parser = NotParsed
    /\ threads = <<>>

SetMaxSequenceNumber(n) ==
    /\ Idle
    /\ maxSequenceNumber' = setMaxSequenceNumber(n)
    /\ UNCHANGED <<sequences, sequenceIdCounter, timeout, clock, last, created,
                   activityVars, threadVars,
                       erasure, codecVars>>

CapacityNext ==
    \/ \E id \in Ids : CreateSequence(id)
    \/ \E id \in Ids : HasSequence(id)
    \/ \E id \in Ids : TerminateSequence(id)
    \/ \E id \in Ids : RemoveSequence(id)
    \/ \E t \in Times : RemoveTimedOutSequences(t)
    \/ \E ctl \in ControlInputs, id \in Ids : ProcessRequestedSpec(ctl, id)
    \/ \E id \in Ids : UpdateMemoryState(id)
    \/ \E t \in Timeouts : SetTimeout(t)
    \/ \E n \in SequenceNumbers : SetMaxSequenceNumber(n)
    \/ Return

CapacitySpec == CapacityInit /\ [][CapacityNext]_vars

\* A creation was called with the registry at or over the limit, for an id
\* that was absent or 0.
CreationAtLimit ==
    /\ \/ last.op = "createSequence"
       \/ last.op = "processRequestedSpec" /\ last.ctl = SEQUENCE_START
    /\ getSequencesCount(last.seqsBefore) >= getMaxSequenceNumber
    /\ last.id = 0 \/ ~sequenceExists(last.seqsBefore, last.id)

\* C16: the manager never rejects a creation for capacity: with the registry
\* at or over maxSequenceNumber, createSequence on an absent or zero id
\* returns OK and the registry grows by one sequence.
C16_CreationIgnoresLimit ==
    CreationAtLimit =>
        /\ last.status = OK
        /\ getSequencesCount(sequences) = getSequencesCount(last.seqsBefore) + 1
        /\ getSequencesCount(sequences) > getMaxSequenceNumber

\* With a limit of at least one sequence and the registry at the limit, a
\* creation has left more sequences in the registry than the limit.
C16_Witness ==
    /\ CreationAtLimit
    /\ getMaxSequenceNumber >= 1
    /\ getSequencesCount(last.seqsBefore) = getMaxSequenceNumber
    /\ getSequencesCount(sequences) > getMaxSequenceNumber

\* ---------------------------------------------------- threads and the lock
\* LockSpec: threads that call the manager the way its callers are meant
\* to, each call under the mutex getMutex() returns.  A request thread
\* locks, has its spec admitted by processRequestedSpec and, when that
\* returns OK, fetches the sequence with getSequence; it either keeps the
\* lock from the one to the other or unlocks in between and locks again.
\* Other threads call removeSequence or the sweep, each under the lock.
\* Every thread makes one call.  Time stands still and the timeout is the
\* shortest one; the sweep is called with any time, so that it erases what
\* it finds or nothing.
Ready ==
    [pc |-> "ready", op |-> "none", ctl |-> 0, id |-> 0, status |-> OK,
     specId |-> 0, released |-> FALSE, found |-> FALSE]

LockInit ==
    /\ sequences = <<>>
    /\ sequenceIdCounter \in Ids
    /\ timeout = 0
    /\ clock = 0
    /\ last = NoCall
    /\ created = {}
    /\ watched = 0
    /\ activity = NoActivity
    /\ maxSequenceNumber = MaxSequenceNumber
    /\ mutexOwner = 0
    /\ erasure = NoErasure
    /\ tensorsInfo = <<>>
    /\ requestBody = NoBody
    /\ parser = NotParsed
    /\ threads = [t \in Threads |-> Ready]

\* std::unique_lock<std::mutex> lock(getMutex()): the thread has its call
\* at hand and waits for the mutex.
Lock(t, op, ctl, id) ==
    /\ threads[t].pc = "ready"
    /\ threads' = [threads EXCEPT ![t] =
                      [Ready EXCEPT !.pc = "waiting", !.op = op,
                                    !.ctl = ctl, !.id = id]]
    /\ UNCHANGED <<sequences, sequenceIdCounter, timeout, clock, last, created,
                   activityVars, maxSequenceNumber, mutexOwner,
                       erasure, codecVars>>

\* The thread gets the mutex and processRequestedSpec runs under it.  A
\* refused request unlocks and is answered with the status.
Admit(t) ==
    LET th == threads[t]
        r == processRequestedSpec(sequences, sequenceIdCounter, th.ctl, th.id,
                                  clock)
    IN  /\ th.pc = "waiting"
        /\ th.op = "processRequestedSpec"
        /\ mutexOwner = 0
        /\ r.returns
        /\ sequences' = r.sequences
        /\ sequenceIdCounter' = r.sequenceIdCounter
        /\ mutexOwner' = IF r.status = OK THEN t ELSE 0
        /\ threads' = [threads EXCEPT ![t] =
                          [th EXCEPT !.pc = IF r.status = OK
                                            THEN "holding" ELSE "done",
                                     !.status = r.status,
                                     !.specId = r.specId]]
        /\ UNCHANGED <<timeout, clock, last, created, activityVars,
                       maxSequenceNumber, erasure, codecVars>>

\* The thread unlocks between the admission and getSequence.
Unlock(t) ==
    /\ threads[t].pc = "holding"
    /\ mutexOwner = t
    /\ mutexOwner' = 0
    /\ threads' = [threads EXCEPT ![t].pc = "released", ![t].released = TRUE]
    /\ UNCHANGED <<sequences, sequenceIdCounter, timeout, clock, last, created,
                   activityVars, maxSequenceNumber,
                       erasure, codecVars>>

\* getSequence(id).updateMemoryState(newState) under the lock, which the
\* thread still holds or takes again; then it unlocks.  found = FALSE: at()
\* has thrown std::out_of_range.
GetSequence(t) ==
    LET th == threads[t]
        found == sequenceExists(sequences, th.specId)
    IN  /\ \/ th.pc = "holding" /\ mutexOwner = t
           \/ th.pc = "released" /\ mutexOwner = 0
        /\ sequences' = IF found
                         THEN [sequences EXCEPT ![th.specId] =
                                 updateMemoryState(getSequence(sequences, th.specId),
                                                   clock)]
                         ELSE sequences
        /\ mutexOwner' = 0
        /\ threads' = [threads EXCEPT ![t].pc = "done", ![t].found = found]
        /\ UNCHANGED <<sequenceIdCounter, timeout, clock, last, created,
                       activityVars, maxSequenceNumber,
                       erasure, codecVars>>

\* removeSequence under the lock.
LockedRemoveSequence(t) ==
    LET th == threads[t]
        r == removeSequence(sequences, th.id)
    IN  /\ th.pc = "waiting"
        /\ th.op = "removeSequence"
        /\ mutexOwner = 0
        /\ sequences' = r.sequences
        /\ threads' = [threads EXCEPT ![t].pc = "done", ![t].status = r.status]
        /\ UNCHANGED <<sequenceIdCounter, timeout, clock, last, created,
                       activityVars, maxSequenceNumber, mutexOwner,
                       erasure, codecVars>>

\* The sweep under the lock.
LockedRemoveTimedOutSequences(t, currentTime) ==
    LET th == threads[t]
        r == removeTimedOutSequences(sequences, timeout, currentTime)
    IN  /\ th.pc = "waiting"
        /\ th.op = "removeTimedOutSequences"
        /\ mutexOwner = 0
        /\ sequences' = r.sequences
        /\ threads' = [threads EXCEPT ![t].pc = "done", ![t].status = r.status]
        /\ UNCHANGED <<sequenceIdCounter, timeout, clock, last, created,
                       activityVars, maxSequenceNumber, mutexOwner,
                       erasure, codecVars>>

LockNext ==
    \/ \E t \in Threads, ctl \in ControlInputs, id \in Ids :
          Lock(t, "processRequestedSpec", ctl, id)
    \/ \E t \in Threads, id \in Ids : Lock(t, "removeSequence", 0, id)
    \/ \E t \in Threads : Lock(t, "removeTimedOutSequences", 0, 0)
    \/ \E t \in Threads : Admit(t)
    \/ \E t \in Threads : Unlock(t)
    \/ \E t \in Threads : GetSequence(t)
    \/ \E t \in Threads : LockedRemoveSequence(t)
    \/ \E t \in Threads, now \in Times : LockedRemoveTimedOutSequences(t, now)

LockSpec == LockInit /\ [][LockNext]_vars

\* At most one thread is between lock and unlock, and it is the owner.
LockTypeOK ==
    /\ mutexOwner \in Threads \cup {0}
    /\ \A t \in Threads :
          /\ threads[t].pc \in {"ready", "waiting", "holding", "released", "done"}
          /\ threads[t].pc = "holding" <=> mutexOwner = t

\* The request of thread t has come back from processRequestedSpec.
Answered(t) ==
    /\ threads[t].op = "processRequestedSpec"
    /\ threads[t].pc \in {"holding", "released", "done"}

\* Thread t asked to start a sequence and has its answer.
Started(t) == Answered(t) /\ threads[t].ctl = SEQUENCE_START

\* A thread has finished a removeSequence or a sweep.
SomethingErased ==
    \E t \in Threads :
        /\ threads[t].pc = "done"
        /\ threads[t].op \in {"removeSequence", "removeTimedOutSequences"}

\* C17: with every operation under the lock, of the threads that ask to
\* start the same nonzero id, absent at first and neither generated for
\* another request nor erased meanwhile, exactly one is answered OK and all
\* the others already-exists, whatever the interleaving.
C17_ExactlyOneStartSucceeds ==
    \A x \in Ids \ {0} :
        LET starts == {t \in Threads : Started(t) /\ threads[t].id = x}
            generated == \E t \in Threads :
                            /\ Started(t)
                            /\ threads[t].id = 0
                            /\ threads[t].specId = x
        IN  (starts # {} /\ ~generated /\ ~SomethingErased) =>
                /\ Cardinality({t \in starts : threads[t].status = OK}) = 1
                /\ \A t \in starts :
                      threads[t].status \in {OK, SEQUENCE_ALREADY_EXISTS}

\* Every thread has asked to start the same nonzero id and has finished.
C17_Witness ==
    \E x \in Ids \ {0} :
        \A t \in Threads :
            /\ Started(t)
            /\ threads[t].id = x
            /\ threads[t].pc = "done"

\* The ids of the start requests answered OK, generated or explicit, are
\* pairwise distinct.
StartedDistinct ==
    \A t1, t2 \in Threads :
        (/\ t1 # t2
         /\ Started(t1) /\ threads[t1].status = OK
         /\ Started(t2) /\ threads[t2].status = OK)
        => threads[t1].specId # threads[t2].specId

\* A step that answers a start request with id 0 issues an id that is not
\* 0 and names no sequence of the registry the step finds, and inserts it.
IssuedFresh ==
    \A t \in Threads :
        (/\ threads[t].pc = "waiting"
         /\ threads[t].op = "processRequestedSpec"
         /\ threads[t].ctl = SEQUENCE_START
         /\ threads[t].id = 0
         /\ threads'[t].pc # "waiting")
        => /\ threads'[t].status = OK
           /\ threads'[t].specId # 0
           /\ ~sequenceExists(sequences, threads'[t].specId)
           /\ sequenceExists(sequences', threads'[t].specId)

\* C18: with every operation under the lock, start requests with id 0,
\* interleaved with start requests with explicit ids, are issued pairwise
\* distinct ids (as long as nothing is erased), and no id is issued that
\* names a sequence present in the registry when it is issued.
C18_GeneratedIdsDistinct ==
    /\ [](~SomethingErased => StartedDistinct)
    /\ [][IssuedFresh]_vars

\* Two threads have started sequences, one under an explicit id and one
\* under the id generated for it, the next one after the explicit id.
C18_Witness ==
    \E t1, t2 \in Threads :
        /\ Started(t1) /\ threads[t1].status = OK /\ threads[t1].id = 0
        /\ Started(t2) /\ threads[t2].status = OK /\ threads[t2].id # 0
        /\ threads[t1].specId = threads[t2].id + 1
        /\ DOMAIN sequences = {threads[t1].specId, threads[t2].specId}

\* Thread t was admitted (processRequestedSpec returned OK) and has called
\* getSequence.
Fetched(t) ==
    /\ threads[t].op = "processRequestedSpec"
    /\ threads[t].status = OK
    /\ threads[t].pc = "done"

\* C19: a request thread that keeps the lock from its admission to its
\* getSequence finds the sequence: while it holds the lock the sequence is
\* in the registry, and getSequence fails only for a thread that unlocked
\* in between, after another thread's removeSequence or sweep.
C19_HeldLockKeepsEntry ==
    \A t \in Threads :
        /\ threads[t].pc = "holding" => sequenceExists(sequences, threads[t].specId)
        /\ (Fetched(t) /\ ~threads[t].released) => threads[t].found
        /\ (Fetched(t) /\ ~threads[t].found) =>
              /\ threads[t].released
              /\ SomethingErased

\* A request thread holds the lock after its admission, the sequence is in
\* the registry, and another thread waits for the lock with a
\* removeSequence of that sequence.
C19_Witness ==
    \E t1, t2 \in Threads :
        /\ threads[t1].pc = "holding"
        /\ sequenceExists(sequences, threads[t1].specId)
        /\ threads[t2].pc = "waiting"
        /\ threads[t2].op = "removeSequence"
        /\ threads[t2].id = threads[t1].specId

\* The other half of C19: a request thread that unlocked between its
\* admission and its getSequence has found the sequence removed.
C19_RemovedAfterUnlock ==
    \E t \in Threads :
        /\ Fetched(t)
        /\ threads[t].released
        /\ ~threads[t].found

\* ------------------------------------------------------ time running on
\* LiveSpec: the operations of ActivitySpec with no sequence watched, a
\* sweep that is called again and again with the time it is called at, and
\* time that goes on after the last creation and the last memory-state
\* update (both by LastActivity) for longer than the longest timeout.
\* The callers name the sequences they start, so the id generator, which
\* Spec and LockSpec cover, is not called and its counter stays as seeded.
Horizon == LastActivity + (MaxTimeout + 1) * TicksPerSecond

LiveInit ==
    /\ sequences = <<>>
    /\ sequenceIdCounter = 0
    /\ timeout \in Timeouts
    /\ clock = 0
    /\ last = NoCall
    /\ created = {}
    /\ watched = 0
    /\ activity = NoActivity
    /\ maxSequenceNumber = MaxSequenceNumber
    /\ mutexOwner = 0
    /\ erasure = NoErasure
    /\ tensorsInfo = <<>>
    /\ requestBody = NoBody
    /\ parser = NotParsed
    /\ threads = <<>>

\* Time passes whatever the callers do.
LiveTick ==
    /\ clock < Horizon
    /\ clock' = clock + 1
    /\ UNCHANGED <<sequences, sequenceIdCounter, timeout, last, created, otherVars>>

LiveNext ==
    \/ \E ctl \in ControlInputs, id \in Ids :
          /\ ctl = SEQUENCE_START => (id # 0 /\ clock <= LastActivity)
          /\ WatchedProcessRequestedSpec(ctl, id)
    \/ \E id \in Ids :
          /\ clock <= LastActivity
          /\ WatchedUpdateMemoryState(id)
    \/ \E id \in Ids : WatchedRemoveSequence(id)
    \/ RemoveTimedOutSequences(clock)
    \/ \E t \in Timeouts : SetTimeout(t)
    \/ LiveTick
    \/ WatchedReturn

\* The scheduler of the sweep calls it again and again, its caller takes
\* the result, and time advances.
LiveSpec ==
    /\ LiveInit
    /\ [][LiveNext]_vars
    /\ WF_vars(LiveTick)
    /\ WF_vars(RemoveTimedOutSequences(clock))
    /\ WF_vars(WatchedReturn)

\* C20: idle sequences expire: with the sweep called again and again as
\* time advances, every sequence in the registry, active or terminated, is
\* eventually erased once it is no longer refreshed, and its id is absent
\* again.  (In LiveSpec the refreshing of every sequence ends by LastActivity.)
C20_IdleSequencesExpire ==
    \A k \in Ids \ {0} :
        (Lifecycle(sequences, k) # "ABSENT") ~> (Lifecycle(sequences, k) = "ABSENT")

\* A sweep has erased an active and a terminated sequence, both idle for
\* longer than the timeout.
C20_Witness ==
    /\ last.op = "removeTimedOutSequences"
    /\ \E a, b \in DOMAIN last.seqsBefore \ DOMAIN sequences :
          /\ Lifecycle(last.seqsBefore, a) = "ACTIVE"
          /\ Lifecycle(last.seqsBefore, b) = "TERMINATED"
          /\ Lifecycle(sequences, a) = "ABSENT"
          /\ Lifecycle(sequences, b) = "ABSENT"

\* ------------------------------------------------- the reuse of an id
\* ReuseSpec follows one id, watched, and records in erasure how it last
\* left the registry: by which operation, and in which lifecycle state it
\* was.  The record stays when the id is started again.
ReuseInit ==
    /\ sequences = <<>>
    /\ sequenceIdCounter \in Ids
    /\ timeout = 0
    /\ clock = 0
    /\ last = NoCall
    /\ created = {}
    /\ watched \in Ids \ {0}
    /\ activity = NoActivity
    /\ maxSequenceNumber = MaxSequenceNumber
    /\ mutexOwner = 0
    /\ threads = <<>>
    /\ erasure = NoErasure
    /\ tensorsInfo = <<>>
    /\ requestBody = NoBody
    /\ parser = NotParsed

Erased(op, seqs, seqsAfter) ==
    IF sequenceExists(seqs, watched) /\ ~sequenceExists(seqsAfter, watched)
    THEN [by |-> op, was |-> Lifecycle(seqs, watched)]
    ELSE erasure

ReuseRemoveSequence(id) ==
    LET r == removeSequence(sequences, id)
    IN  /\ Idle
        /\ sequences' = r.sequences
        /\ last' = Call("removeSequence", id, 0, 0, r.status, id)
        /\ erasure' = Erased("removeSequence", sequences, r.sequences)
        /\ UNCHANGED <<sequenceIdCounter, timeout, clock, created, activityVars,
                       maxSequenceNumber, threadVars, codecVars>>

ReuseRemoveTimedOutSequences(currentTime) ==
    LET r == removeTimedOutSequences(sequences, timeout, currentTime)
    IN  /\ Idle
        /\ sequences' = r.sequences
        /\ last' = Call("removeTimedOutSequences", 0, 0, currentTime, r.status, 0)
        /\ erasure' = Erased("removeTimedOutSequences", sequences, r.sequences)
        /\ UNCHANGED <<sequenceIdCounter, timeout, clock, created, activityVars,
                       maxSequenceNumber, threadVars, codecVars>>

\* processRequestedSpec, with the history of creations left out.
ReuseProcessRequestedSpec(ctl, id) ==
    LET r == processRequestedSpec(sequences, sequenceIdCounter, ctl, id, clock)
    IN  /\ Idle
        /\ r.returns
        /\ sequences' = r.sequences
        /\ sequenceIdCounter' = r.sequenceIdCounter
        /\ last' = Call("processRequestedSpec", id, ctl, 0, r.status, r.specId)
        /\ UNCHANGED <<timeout, clock, created, otherVars>>

ReuseNext ==
    \/ \E ctl \in ControlInputs, id \in Ids : ReuseProcessRequestedSpec(ctl, id)
    \/ \E id \in Ids : ReuseRemoveSequence(id)
    \/ ReuseRemoveTimedOutSequences(clock)
    \/ Tick
    \/ Return

ReuseSpec == ReuseInit /\ [][ReuseNext]_vars

ReuseTypeOK ==
    /\ watched \in Ids \ {0}
    /\ erasure.by \in {"none", "removeSequence", "removeTimedOutSequences"}
    /\ erasure.was \in {"ABSENT", "ACTIVE", "TERMINATED"}
    /\ erasure.by = "none" <=> erasure.was = "ABSENT"

\* The call just made is a START that names the watched id explicitly and
\* found it absent after it had been erased.
StartedAgain ==
    /\ last.op = "processRequestedSpec"
    /\ last.ctl = SEQUENCE_START
    /\ last.id = watched
    /\ erasure # NoErasure
    /\ ~sequenceExists(last.seqsBefore, watched)

\* C27: once id x has left the registry, by removeSequence or by the sweep,
\* as an ACTIVE or as a TERMINATED entry, a START with id x succeeds again:
\* it returns OK and adds a new ACTIVE entry under x (hasSequence(x) is OK),
\* created at the time of the call, and touches no other entry.
C27_ErasedIdStartsAgain ==
    /\ StartedAgain
       => /\ last.status = OK
          /\ last.specId = watched
          /\ hasSequence(sequences, watched) = OK
          /\ sequences[watched] = Sequence(watched, clock)
          /\ AddedOnly(last.seqsBefore, sequences, watched)
    /\ (Idle /\ erasure # NoErasure /\ ~sequenceExists(sequences, watched))
       => LET r == processRequestedSpec(sequences, sequenceIdCounter,
                                        SEQUENCE_START, watched, clock)
          IN  /\ r.returns
              /\ r.status = OK
              /\ hasSequence(r.sequences, watched) = OK

\* The watched id was started again after it had left the registry in the
\* given way.
StartedAgainAfter(op, was) ==
    /\ StartedAgain
    /\ erasure = [by |-> op, was |-> was]
    /\ last.status = OK
    /\ Lifecycle(sequences, watched) = "ACTIVE"

\* An id the sweep erased as a TERMINATED entry is ACTIVE again.
C27_Witness == StartedAgainAfter("removeTimedOutSequences", "TERMINATED")

\* The other three ways: erased by the sweep while ACTIVE, and by
\* removeSequence while ACTIVE and while TERMINATED.
C27_AfterSweepOfActive == StartedAgainAfter("removeTimedOutSequences", "ACTIVE")

C27_AfterRemoveOfActive == StartedAgainAfter("removeSequence", "ACTIVE")

C27_AfterRemoveOfTerminated == StartedAgainAfter("removeSequence", "TERMINATED")

\* ------------------------------------------- createSequence without the lock
\* RaceSpec: threads call createSequence without locking getMutex().  The
\* call is two steps, between which the other threads run: the decision on
\* the id (sequenceExists, or getUniqueSequenceId for id 0) and the
\* insertion.  Unsynchronized accesses of two threads to the map are a data
\* race, which the language leaves undefined: besides the outcome of the
\* statements run one after the other, an insertion made while another
\* thread has called the manager may end in UNDEFINED.
UNDEFINED == "undefined behaviour"

Outside ==
    [pc |-> "outside", id |-> 0, specId |-> 0, checked |-> FALSE, status |-> OK]

RaceInit ==
    /\ sequences = <<>>
    /\ sequenceIdCounter \in Ids
    /\ timeout = 0
    /\ clock = 0
    /\ last = NoCall
    /\ created = {}
    /\ watched = 0
    /\ activity = NoActivity
    /\ maxSequenceNumber = MaxSequenceNumber
    /\ mutexOwner = 0
    /\ threads = [t \in Threads |-> Outside]
    /\ erasure = NoErasure
    /\ tensorsInfo = <<>>
    /\ requestBody = NoBody
    /\ parser = NotParsed

\* createSequence up to the insertion: with id 0 the scan for a fresh id,
\* with another id the test of sequenceExists, which ends the call when the
\* id is there.
RaceCheck(t, id) ==
    LET scan == getUniqueSequenceId(sequences, sequenceIdCounter)
    IN  /\ threads[t].pc = "outside"
        /\ IF id = 0
           THEN /\ scan.found
                /\ sequenceIdCounter' = scan.counter
                /\ threads' = [threads EXCEPT ![t] =
                                 [pc |-> "inserting", id |-> id,
                                  specId |-> scan.counter, checked |-> TRUE,
                                  status |-> OK]]
           ELSE /\ sequenceIdCounter' = sequenceIdCounter
                /\ threads' = [threads EXCEPT ![t] =
                                 IF sequenceExists(sequences, id)
                                 THEN [pc |-> "returned", id |-> id, specId |-> id,
                                       checked |-> FALSE,
                                       status |-> SEQUENCE_ALREADY_EXISTS]
                                 ELSE [pc |-> "inserting", id |-> id,
                                       specId |-> id, checked |-> TRUE,
                                       status |-> OK]]
        /\ UNCHANGED <<sequences, timeout, clock, last, created, activityVars,
                       maxSequenceNumber, mutexOwner, erasure, codecVars>>

\* Another thread has called the manager: the accesses of t race with its
\* accesses.
Racing(t) == \E u \in Threads \ {t} : threads[u].pc # "outside"

\* The insertion and the return.
RaceInsert(t) ==
    LET th == threads[t]
        r == insertSequence(sequences, th.specId, clock)
    IN  /\ th.pc = "inserting"
        /\ \/ /\ sequences' = r.sequences
              /\ threads' = [threads EXCEPT ![t].pc = "returned",
                                            ![t].status = r.status]
           \/ /\ Racing(t)
              /\ sequences' \in {sequences, r.sequences}
              /\ threads' = [threads EXCEPT ![t].pc = "returned",
                                            ![t].status = UNDEFINED]
        /\ UNCHANGED <<sequenceIdCounter, timeout, clock, last, created,
                       activityVars, maxSequenceNumber, mutexOwner, erasure,
                       codecVars>>

RaceNext ==
    \/ \E t \in Threads, id \in Ids : RaceCheck(t, id)
    \/ \E t \in Threads : RaceInsert(t)

RaceSpec == RaceInit /\ [][RaceNext]_vars

RaceTypeOK ==
    /\ DOMAIN sequences \subseteq Ids \ {0}
    /\ sequenceIdCounter \in Ids
    /\ \A t \in Threads :
          /\ threads[t].pc \in {"outside", "inserting", "returned"}
          /\ threads[t].id \in Ids
          /\ threads[t].specId \in Ids
          /\ threads[t].checked \in BOOLEAN
          /\ threads[t].status \in StatusCodes \cup {UNDEFINED}

\* The call of thread t found its id absent, or was issued a fresh one
\* (checked), and has returned what the statements return.
Inserted(t) ==
    /\ threads[t].pc = "returned"
    /\ threads[t].checked
    /\ threads[t].status # UNDEFINED

\* C30: createSequence is not atomic on its own.  Without the lock a call
\* that found its id absent (or was issued a fresh one) returns OK whatever
\* the other threads inserted between its check and its insertion, so two
\* calls can both return OK for one id, explicit or generated; the registry
\* then holds one entry under it, the first one inserted.
C30_CheckThenInsertNotAtomic ==
    \A t \in Threads :
        Inserted(t)
        => /\ threads[t].status = OK
           /\ sequenceExists(sequences, threads[t].specId)
           /\ sequences[threads[t].specId] = Sequence(threads[t].specId, clock)

\* Two threads have returned OK for the same id.
BothReturnedOK(t, u) ==
    /\ t # u
    /\ Inserted(t)
    /\ Inserted(u)
    /\ threads[t].specId = threads[u].specId

\* Both started the same explicit id.
C30_Witness ==
    \E t, u \in Threads :
        /\ BothReturnedOK(t, u)
        /\ threads[t].id # 0
        /\ threads[u].id = threads[t].id
        /\ sequenceExists(sequences, threads[t].id)

\* Both asked for a generated id and were issued the same one.
C30_SameGeneratedId ==
    \E t, u \in Threads :
        /\ BothReturnedOK(t, u)
        /\ threads[t].id = 0
        /\ threads[u].id = 0

\* ------------------------------------------------------------ RestParser
\* The parser of REST predict requests (rest_parser.hpp, not among the
\* sources at hand): modelled from its specification and from the cases of
\* rest_parser_column_test.cpp.  A JSON value is a record with its type:
\* a number carries the kind of its literal and its value, an array its
\* items, an object its members in the order they are written.
\* The bounds of the requests: the rank and the dimensions of the inputs.
MaxRank == 2
MaxDim == 2
NarrowBits == 3
FloatMantissaBits == 4
DoubleMantissaBits == 5
WideBits == 7

Number(literal, value) == [type |-> "number", literal |-> literal, value |-> value]

String == [type |-> "string"]

Null == [type |-> "null"]

Array(items) == [type |-> "array", items |-> items]

Object(members) == [type |-> "object", members |-> members]

Member(name, value) == [name |-> name, value |-> value]

REST_INPUTS_NOT_AN_OBJECT == "REST_INPUTS_NOT_AN_OBJECT"
REST_NO_INPUTS_FOUND == "REST_NO_INPUTS_FOUND"
REST_COULD_NOT_PARSE_INPUT == "REST_COULD_NOT_PARSE_INPUT"

\* The element types (InferenceEngine::Precision).  The widths are scaled:
\* the integer types of 8, 16 and 32 bits, which a double holds exactly,
\* have NarrowBits bits, those of 64 bits have WideBits bits, and the
\* significands of double and float have DoubleMantissaBits and
\* FloatMantissaBits bits (53 and 24 in the code).
Signed(bits) == [kind |-> "signed", bits |-> bits]

Unsigned(bits) == [kind |-> "unsigned", bits |-> bits]

FP32 == [kind |-> "float", bits |-> FloatMantissaBits]

IntegerPrecisions ==
    {Signed(NarrowBits), Unsigned(NarrowBits), Signed(WideBits), Unsigned(WideBits)}

RECURSIVE Pow2(_)
Pow2(n) == IF n = 0 THEN 1 ELSE 2 * Pow2(n - 1)

\* The values of an integer type.
MinValue(precision) ==
    IF precision.kind = "signed" THEN 0 - Pow2(precision.bits - 1) ELSE 0

MaxValue(precision) ==
    IF precision.kind = "signed"
    THEN Pow2(precision.bits - 1) - 1
    ELSE Pow2(precision.bits) - 1

InRange(v, precision) == MinValue(precision) <= v /\ v <= MaxValue(precision)

\* The number of bits of n > 0.
RECURSIVE BitLength(_)
BitLength(n) == IF n = 0 THEN 0 ELSE 1 + BitLength(n \div 2)

Abs(v) == IF v < 0 THEN 0 - v ELSE v

\* A whole number read into a binary floating-point format with a
\* significand of the given number of bits: rounded to the nearest value of
\* the format, halfway cases to the even significand.
RoundToMantissa(v, bits) ==
    LET a == Abs(v)
        drop == BitLength(a) - bits
        q == Pow2(drop)
        lo == (a \div q) * q
        rem == a - lo
        r == IF 2 * rem < q THEN lo
             ELSE IF 2 * rem > q THEN lo + q
             ELSE IF (lo \div q) % 2 = 0 THEN lo ELSE lo + q
    IN  IF drop <= 0 THEN v ELSE IF v < 0 THEN 0 - r ELSE r

\* Variant: the cast takes every type as a signed one.
castIntegerAsSigned(n, precision) ==
    ((n + Pow2(precision.bits - 1)) % Pow2(precision.bits))
    - Pow2(precision.bits - 1)

\* static_cast of an integer to an integer type: modulo 2^bits.
castInteger(n, precision) ==
    IF precision.kind = "signed"
    THEN ((n + Pow2(precision.bits - 1)) % Pow2(precision.bits))
         - Pow2(precision.bits - 1)
    ELSE n % Pow2(precision.bits)

\* static_cast of a double without fraction to an integer type: the value,
\* when the type holds it; otherwise the behaviour is undefined.
castDouble(d, precision) ==
    IF InRange(d, precision)
    THEN [defined |-> TRUE, value |-> d]
    ELSE [defined |-> FALSE, value |-> 0]

\* The value a terminal adds to the tensor.  An integer literal is read as
\* an integer, a floating literal (here: without fraction) as a double;
\* the value read is cast to the element type.
addValue(precision, node) ==
    IF node.literal = "integer"
    THEN IF precision.kind = "float"
         THEN [defined |-> TRUE,
               value |-> RoundToMantissa(node.value, precision.bits)]
         ELSE [defined |-> TRUE, value |-> castInteger(node.value, precision)]
    ELSE LET d == RoundToMantissa(node.value, DoubleMantissaBits)
         IN  IF precision.kind = "float"
             THEN [defined |-> TRUE, value |-> RoundToMantissa(d, precision.bits)]
             ELSE castDouble(d, precision)

RECURSIVE Product(_)
Product(shape) == IF shape = <<>> THEN 1 ELSE Head(shape) * Product(Tail(shape))

\* Shape inference: a number has the empty shape, an array of items that
\* all have one shape has their shape with its length put in front; anything
\* else has none.
RECURSIVE inferShape(_)
inferShape(node) ==
    IF node.type = "number"
    THEN [ok |-> TRUE, shape |-> <<>>]
    ELSE IF node.type # "array"
         THEN [ok |-> FALSE, shape |-> <<>>]
         ELSE LET n == Len(node.items)
                  of == [k \in 1..n |-> inferShape(node.items[k])]
              IN  IF n = 0
                  THEN [ok |-> TRUE, shape |-> <<0>>]
                  ELSE IF \A k \in 1..n : of[k].ok /\ of[k].shape = of[1].shape
                       THEN [ok |-> TRUE, shape |-> <<n>> \o of[1].shape]
                       ELSE [ok |-> FALSE, shape |-> <<>>]

\* The terminals of a rectangular array in the order they are visited:
\* depth first, the items of an array from the first to the last.
RECURSIVE flatten(_)
RECURSIVE flattenItems(_, _)
flattenItems(items, k) ==
    IF k > Len(items) THEN <<>>
    ELSE flatten(items[k]) \o flattenItems(items, k + 1)

\* Variant: the items of an array are visited from the last to the first.
RECURSIVE flattenBackwards(_)
RECURSIVE flattenItemsBackwards(_, _)
flattenItemsBackwards(items, k) ==
    IF k = 0 THEN <<>>
    ELSE flattenBackwards(items[k]) \o flattenItemsBackwards(items, k - 1)

flattenBackwards(node) ==
    IF node.type = "number" THEN <<node>>
    ELSE flattenItemsBackwards(node.items, Len(node.items))

flatten(node) ==
    IF node.type = "number" THEN <<node>> ELSE flattenItems(node.items, 1)

\* One input: the nested array must have the declared shape; its terminals
\* become the data of the tensor.
parseInput(info, node) ==
    LET inferred == inferShape(node)
    IN  IF inferred.ok /\ inferred.shape = info.shape /\ node.type = "array"
        THEN LET terminals == flatten(node)
             IN  [ok |-> TRUE,
                  tensor |-> [shape |-> inferred.shape,
                              precision |-> info.precision,
                              data |-> [k \in 1..Len(terminals) |->
                                          addValue(info.precision, terminals[k])]]]
        ELSE [ok |-> FALSE, tensor |-> <<>>]

\* Variant: every input must have the batch size of the first one.
RECURSIVE parseMembersSharingBatch(_, _, _, _)
parseMembersSharingBatch(info, members, m, proto) ==
    IF m > Len(members)
    THEN [ok |-> TRUE, proto |-> proto]
    ELSE LET name == members[m].name
             r == parseInput(info[name], members[m].value)
         IN  IF ~r.ok \/ Head(r.tensor.shape) # Len(members[1].value.items)
             THEN [ok |-> FALSE, proto |-> proto]
             ELSE parseMembersSharingBatch(info, members, m + 1,
                               [n \in DOMAIN proto \cup {name} |->
                                  IF n = name THEN r.tensor ELSE proto[n]])

\* The members of "inputs" one after the other; the first that cannot be
\* parsed ends the parse.
RECURSIVE parseMembers(_, _, _, _)
parseMembers(info, members, m, proto) ==
    IF m > Len(members)
    THEN [ok |-> TRUE, proto |-> proto]
    ELSE LET name == members[m].name
             r == parseInput(info[name], members[m].value)
         IN  IF ~r.ok
             THEN [ok |-> FALSE, proto |-> proto]
             ELSE parseMembers(info, members, m + 1,
                               [n \in DOMAIN proto \cup {name} |->
                                  IF n = name THEN r.tensor ELSE proto[n]])

\* Variant: empty inputs are reported like inputs that are no container.
parseNotTellingEmptyApart(info, body) ==
    IF body.inputs.type # "object" \/ Len(body.inputs.members) = 0
    THEN [status |-> REST_INPUTS_NOT_AN_OBJECT, proto |-> <<>>]
    ELSE LET r == parseMembers(info, body.inputs.members, 1, <<>>)
         IN  IF r.ok
             THEN [status |-> OK, proto |-> r.proto]
             ELSE [status |-> REST_COULD_NOT_PARSE_INPUT, proto |-> <<>>]

\* Variant: the tensors parsed before the failure are left in the result.
parseKeepingParsedInputs(info, body) ==
    IF body.inputs.type # "object"
    THEN [status |-> REST_INPUTS_NOT_AN_OBJECT, proto |-> <<>>]
    ELSE IF Len(body.inputs.members) = 0
         THEN [status |-> REST_NO_INPUTS_FOUND, proto |-> <<>>]
         ELSE LET r == parseMembers(info, body.inputs.members, 1, <<>>)
              IN  IF r.ok
                  THEN [status |-> OK, proto |-> r.proto]
                  ELSE [status |-> REST_COULD_NOT_PARSE_INPUT, proto |-> r.proto]

\* RestParser::parse of a request in column format with named inputs.  A
\* failure leaves no tensor.
parse(info, body) ==
    IF body.inputs.type # "object"
    THEN [status |-> REST_INPUTS_NOT_AN_OBJECT, proto |-> <<>>]
    ELSE IF Len(body.inputs.members) = 0
         THEN [status |-> REST_NO_INPUTS_FOUND, proto |-> <<>>]
         ELSE LET r == parseMembers(info, body.inputs.members, 1, <<>>)
              IN  IF r.ok
                  THEN [status |-> OK, proto |-> r.proto]
                  ELSE [status |-> REST_COULD_NOT_PARSE_INPUT, proto |-> <<>>]

\* The shapes an input is declared with.
Shapes == UNION {[1..r -> 1..MaxDim] : r \in 1..MaxRank}

\* A rectangular array of the shape, its terminals base, base + 1, ... in
\* row-major order; odd values are written as integer literals, even ones
\* as floating literals.
RECURSIVE Rect(_, _)
Rect(shape, base) ==
    IF shape = <<>>
    THEN Number(IF base % 2 = 1 THEN "integer" ELSE "floating", base)
    ELSE Array([k \in 1..Head(shape) |->
                  Rect(Tail(shape), base + (k - 1) * Product(Tail(shape)))])

\* The places of a value: the indices that lead from it to a value in it.
RECURSIVE Paths(_)
Paths(node) ==
    IF node.type = "array"
    THEN {<<>>} \cup UNION {{<<k>> \o p : p \in Paths(node.items[k])} :
                              k \in 1..Len(node.items)}
    ELSE {<<>>}

RECURSIVE NodeAt(_, _)
NodeAt(node, path) ==
    IF path = <<>> THEN node ELSE NodeAt(node.items[Head(path)], Tail(path))

RECURSIVE ReplaceAt(_, _, _)
ReplaceAt(node, path, by) ==
    IF path = <<>> THEN by
    ELSE Array([node.items EXCEPT ![Head(path)] = ReplaceAt(@, Tail(path), by)])

\* What a client may write in the place of a value: text, null, an array
\* where a number stands, a number where an array stands, an array with an
\* item less or an item more.
Defects(node) ==
    IF node.type = "number"
    THEN {String, Null, Array(<<node>>)}
    ELSE {String, Null, Number("integer", 1),
          Array(SubSeq(node.items, 1, Len(node.items) - 1)),
          Array(Append(node.items, node.items[1]))}

\* The signatures of the servables: input "i" of any shape, and with it
\* possibly input "j" of the same inner dimensions and a batch size of its
\* own.
Signatures ==
    {[n \in {"i"} |-> [shape |-> s, precision |-> FP32]] : s \in Shapes}
    \cup {[n \in {"i", "j"} |->
             [shape |-> IF n = "i" THEN s ELSE <<b>> \o Tail(s),
              precision |-> FP32]] : s \in Shapes, b \in 1..MaxDim}

\* The orders in which a request names the inputs.
Orders(names) ==
    IF names = {"i"} THEN {<<"i">>} ELSE {<<"i", "j">>, <<"j", "i">>}

\* The request that gives every input an array of its declared shape.
ValidBody(info, order) ==
    [inputs |-> Object([m \in 1..Len(order) |->
                          Member(order[m], Rect(info[order[m]].shape, m))]),
     edited |-> FALSE]

managerIdle ==
    /\ sequences = <<>>
    /\ sequenceIdCounter = 1
    /\ timeout = 0
    /\ clock = 0
    /\ last = NoCall
    /\ created = {}
    /\ watched = 0
    /\ activity = NoActivity
    /\ maxSequenceNumber = MaxSequenceNumber
    /\ mutexOwner = 0
    /\ threads = <<>>
    /\ erasure = NoErasure

managerVars ==
    <<sequences, sequenceIdCounter, timeout, clock, last, created,
      activityVars, maxSequenceNumber, threadVars, erasure>>

\* RestParser(tensorsInfo) and a request body that is well formed.
CodecInit ==
    /\ managerIdle
    /\ \E info \in Signatures : \E order \in Orders(DOMAIN info) :
          /\ tensorsInfo = info
          /\ requestBody = ValidBody(info, order)
    /\ parser = NotParsed

\* The client sends something else than a mapping as "inputs", or a mapping
\* without members.
EditInputs ==
    /\ ~requestBody.edited
    /\ parser = NotParsed
    /\ \E by \in {String, Number("integer", 5), Object(<<>>)} :
          requestBody' = [inputs |-> by, edited |-> TRUE]
    /\ UNCHANGED <<managerVars, tensorsInfo, parser>>

SetMember(body, m, value) ==
    [inputs |-> Object([body.inputs.members EXCEPT ![m].value = value]),
     edited |-> TRUE]

\* The client writes a defect at one place of one input.
EditNode ==
    /\ ~requestBody.edited
    /\ parser = NotParsed
    /\ \E m \in 1..Len(requestBody.inputs.members) :
          LET value == requestBody.inputs.members[m].value
          IN  \E path \in Paths(value) : \E by \in Defects(NodeAt(value, path)) :
                requestBody' = SetMember(requestBody, m, ReplaceAt(value, path, by))
    /\ UNCHANGED <<managerVars, tensorsInfo, parser>>

\* The client sends a well-formed array of another shape for one input.
EditShape ==
    /\ ~requestBody.edited
    /\ parser = NotParsed
    /\ \E m \in 1..Len(requestBody.inputs.members) :
          \E shape \in Shapes \ {tensorsInfo[requestBody.inputs.members[m].name].shape} :
             requestBody' = SetMember(requestBody, m, Rect(shape, m))
    /\ UNCHANGED <<managerVars, tensorsInfo, parser>>

\* The data a build can leave in a tensor: the values added, and any value
\* of the element type where the cast was undefined.
ResolveData(raw, precision) ==
    IF \A k \in DOMAIN raw : raw[k].defined
    THEN {[k \in DOMAIN raw |-> raw[k].value]}
    ELSE {d \in [DOMAIN raw -> MinValue(precision)..MaxValue(precision)] :
            \A k \in DOMAIN raw : raw[k].defined => d[k] = raw[k].value}

Resolved(tensor) ==
    {[shape |-> tensor.shape, precision |-> tensor.precision, data |-> d] :
        d \in ResolveData(tensor.data, tensor.precision)}

Outcomes(result) ==
    IF result.status # OK
    THEN {result}
    ELSE {[status |-> OK, proto |-> p] :
            p \in {f \in [DOMAIN result.proto ->
                            UNION {Resolved(result.proto[n]) : n \in DOMAIN result.proto}] :
                     \A n \in DOMAIN result.proto : f[n] \in Resolved(result.proto[n])}}

\* parser.parse(request)
Parse ==
    /\ parser = NotParsed
    /\ parser' \in Outcomes(parse(tensorsInfo, requestBody))
    /\ UNCHANGED <<managerVars, tensorsInfo, requestBody>>

CodecNext == EditInputs \/ EditNode \/ EditShape \/ Parse

CodecSpec == CodecInit /\ [][CodecNext]_vars

\* A request with one terminal for one element of an integer type.
LiteralValues == MinValue(Signed(WideBits))..MaxValue(Unsigned(WideBits))

ConversionInit ==
    /\ managerIdle
    /\ \E precision \in IntegerPrecisions :
          tensorsInfo = [n \in {"i"} |-> [shape |-> <<1>>, precision |-> precision]]
    /\ \E literal \in {"integer", "floating"} : \E v \in LiteralValues :
          requestBody = [inputs |-> Object(<<Member("i", Array(<<Number(literal, v)>>))>>),
                         edited |-> FALSE]
    /\ parser = NotParsed

ConversionNext == Parse

ConversionSpec == ConversionInit /\ [][ConversionNext]_vars

CodecTypeOK ==
    /\ DOMAIN tensorsInfo \in {{"i"}, {"i", "j"}}
    /\ requestBody.edited \in BOOLEAN
    /\ parser.status \in {"none", OK, REST_INPUTS_NOT_AN_OBJECT,
                          REST_NO_INPUTS_FOUND, REST_COULD_NOT_PARSE_INPUT}
    /\ parser.status # OK => parser.proto = <<>>
    /\ parser.status = OK => DOMAIN parser.proto = DOMAIN tensorsInfo

\* ------------------------------------------------------------ claims on CodecSpec
Parsed == parser # NotParsed

Members == requestBody.inputs.members

Declared(m) == tensorsInfo[Members[m].name].shape

\* The value is a rectangular array of numbers of exactly this shape.
RECURSIVE HasShape(_, _)
HasShape(node, shape) ==
    IF shape = <<>>
    THEN node.type = "number"
    ELSE /\ node.type = "array"
         /\ Len(node.items) = Head(shape)
         /\ \A k \in 1..Len(node.items) : HasShape(node.items[k], Tail(shape))

WellFormed ==
    /\ requestBody.inputs.type = "object"
    /\ Len(Members) > 0
    /\ \A m \in 1..Len(Members) : HasShape(Members[m].value, Declared(m))

\* The indices of the elements of an array of the shape.
Indices(shape) ==
    {ix \in [1..Len(shape) -> 1..(MaxDim + 1)] : \A k \in 1..Len(shape) : ix[k] <= shape[k]}

\* The place of an element in the row-major layout, counted from 0.
RECURSIVE Offset(_, _)
Offset(shape, ix) ==
    IF shape = <<>> THEN 0
    ELSE (Head(ix) - 1) * Product(Tail(shape)) + Offset(Tail(shape), Tail(ix))

RowMajor(tensor, value) ==
    /\ Len(tensor.data) = Product(tensor.shape)
    /\ \A ix \in Indices(tensor.shape) :
          tensor.data[Offset(tensor.shape, ix) + 1]
             = addValue(tensor.precision, NodeAt(value, ix)).value

\* C21: a request whose inputs are rectangular arrays of numbers of their
\* declared shapes is parsed with success; every tensor has the declared
\* shape, as many elements as the product of its dimensions, and holds the
\* element at index (i1, ..., in) of the nested array at its row-major
\* place, the last dimension varying fastest.
C21_RectangularArrayDecodesRowMajor ==
    (Parsed /\ WellFormed) =>
        /\ parser.status = OK
        /\ DOMAIN parser.proto = {Members[m].name : m \in 1..Len(Members)}
        /\ \A m \in 1..Len(Members) :
              /\ parser.proto[Members[m].name].shape = Declared(m)
              /\ RowMajor(parser.proto[Members[m].name], Members[m].value)

\* A parsed request with an input of two rows of two elements.
C21_Witness ==
    /\ Parsed
    /\ WellFormed
    /\ parser.status = OK
    /\ \E m \in 1..Len(Members) :
          /\ Declared(m) = <<2, 2>>
          /\ parser.proto[Members[m].name].data[2] # parser.proto[Members[m].name].data[3]

\* The lengths met on the way from a value to its first terminal.
RECURSIVE LeftmostShape(_)
LeftmostShape(node) ==
    IF node.type # "array" THEN <<>>
    ELSE IF Len(node.items) = 0 THEN <<0>>
         ELSE <<Len(node.items)>> \o LeftmostShape(node.items[1])

Rectangular(node) == HasShape(node, LeftmostShape(node))

\* The input is ragged, of mixed depth, has a terminal that is no number,
\* or is rectangular with a rank or inner dimensions other than declared.
Malformed(m) ==
    LET value == Members[m].value
        shape == LeftmostShape(value)
    IN  \/ ~Rectangular(value)
        \/ Len(shape) # Len(Declared(m))
        \/ Len(shape) > 0 /\ Tail(shape) # Tail(Declared(m))

\* C22: a request with a malformed input fails with
\* REST_COULD_NOT_PARSE_INPUT and leaves no tensor, whatever its other
\* inputs are.
C22_MalformedInputFailsWholeRequest ==
    (Parsed /\ requestBody.inputs.type = "object"
       /\ \E m \in 1..Len(Members) : Malformed(m)) =>
        /\ parser.status = REST_COULD_NOT_PARSE_INPUT
        /\ parser.proto = <<>>

\* The first input is well formed, the second holds a null.
C22_Witness ==
    /\ Parsed
    /\ requestBody.inputs.type = "object"
    /\ Len(Members) = 2
    /\ HasShape(Members[1].value, Declared(1))
    /\ \E path \in Paths(Members[2].value) : NodeAt(Members[2].value, path) = Null
    /\ parser.status = REST_COULD_NOT_PARSE_INPUT

\* Rows of different lengths after a well-formed input.
C22_RaggedAfterValid ==
    /\ Parsed
    /\ requestBody.inputs.type = "object"
    /\ Len(Members) = 2
    /\ HasShape(Members[1].value, Declared(1))
    /\ Members[2].value.type = "array"
    /\ \E k \in 1..Len(Members[2].value.items) :
          /\ Members[2].value.items[k].type = "array"
          /\ Members[2].value.items[1].type = "array"
          /\ Len(Members[2].value.items[k].items) # Len(Members[2].value.items[1].items)
    /\ parser.status = REST_COULD_NOT_PARSE_INPUT

\* Well-formed rows of another length than declared.
C22_InnerDimensionMismatch ==
    /\ Parsed
    /\ requestBody.inputs.type = "object"
    /\ \E m \in 1..Len(Members) :
          /\ Rectangular(Members[m].value)
          /\ Len(LeftmostShape(Members[m].value)) = Len(Declared(m))
          /\ Head(LeftmostShape(Members[m].value)) = Head(Declared(m))
          /\ Malformed(m)
    /\ parser.status = REST_COULD_NOT_PARSE_INPUT

\* C23: inputs without members fail with REST_NO_INPUTS_FOUND, inputs that
\* are a string or a number with REST_INPUTS_NOT_AN_OBJECT, and nothing
\* else fails with either; the two codes differ from each other and from
\* REST_COULD_NOT_PARSE_INPUT.
C23_EmptyAndNonContainerInputsTellApart ==
    Parsed =>
        /\ (parser.status = REST_NO_INPUTS_FOUND)
              <=> (requestBody.inputs.type = "object" /\ Len(Members) = 0)
        /\ (parser.status = REST_INPUTS_NOT_AN_OBJECT)
              <=> (requestBody.inputs.type \in {"string", "number"})
        /\ REST_NO_INPUTS_FOUND # REST_INPUTS_NOT_AN_OBJECT
        /\ REST_COULD_NOT_PARSE_INPUT \notin {REST_NO_INPUTS_FOUND, REST_INPUTS_NOT_AN_OBJECT}

C23_Witness ==
    /\ Parsed
    /\ requestBody.inputs = Object(<<>>)
    /\ parser.status = REST_NO_INPUTS_FOUND

C23_NumberAsInputs ==
    /\ Parsed
    /\ requestBody.inputs.type = "number"
    /\ parser.status = REST_INPUTS_NOT_AN_OBJECT

C23_StringAsInputs ==
    /\ Parsed
    /\ requestBody.inputs.type = "string"
    /\ parser.status = REST_INPUTS_NOT_AN_OBJECT

DifferentBatch ==
    /\ requestBody.inputs.type = "object"
    /\ Len(Members) = 2
    /\ Head(Declared(1)) # Head(Declared(2))

\* C24: a request with two inputs of different batch sizes, each a
\* rectangular array of its own declared shape, is parsed with success and
\* each tensor has the shape declared for it.
C24_InputsNeedNoSharedBatch ==
    (Parsed /\ DifferentBatch /\ WellFormed) =>
        /\ parser.status = OK
        /\ \A m \in 1..2 : parser.proto[Members[m].name].shape = Declared(m)

C24_Witness ==
    /\ Parsed
    /\ DifferentBatch
    /\ WellFormed
    /\ parser.status = OK
    /\ Len(parser.proto["i"].data) # Len(parser.proto["j"].data)

\* ------------------------------------------------------------ claims on ConversionSpec
Literal == Members[1].value.items[1]

Target == tensorsInfo["i"].precision

Decoded == parser.proto["i"].data[1]

DecodedExactly == parser.status = OK /\ Decoded = Literal.value

\* A double holds every whole number of up to DoubleMantissaBits bits.
DoubleHolds(v) == Abs(v) <= Pow2(DoubleMantissaBits)

\* C25 as stated: a terminal within the range of the integer element type,
\* written as an integer literal or as a floating literal without
\* fraction, is decoded to exactly its value.  Refuted: a floating literal
\* is read as a double, which does not hold every value of the widest
\* types.
C25_EveryInRangeLiteralDecodesExactly ==
    (Parsed /\ InRange(Literal.value, Target)) => DecodedExactly

\* C25, amended: a terminal within the range of the integer element type
\* is decoded to exactly its value, without wraparound or change of sign,
\* when it is written as an integer literal, when the type is not wider
\* than the significand of a double, or when a double holds its value.
C25_InRangeLiteralDecodesExactly ==
    (Parsed /\ InRange(Literal.value, Target)
       /\ (\/ Literal.literal = "integer"
           \/ Target.bits <= DoubleMantissaBits
           \/ DoubleHolds(Literal.value))) => DecodedExactly

\* The largest value of the narrow unsigned type, written as a floating
\* literal.
C25_Witness ==
    /\ Parsed
    /\ Target = Unsigned(NarrowBits)
    /\ Literal = Number("floating", MaxValue(Target))
    /\ DecodedExactly

\* The smallest value of the narrow signed type, written as a floating
\* literal.
C25_SignedMinimum ==
    /\ Parsed
    /\ Target = Signed(NarrowBits)
    /\ Literal = Number("floating", MinValue(Target))
    /\ DecodedExactly

\* The largest value of the wide unsigned type, written as an integer
\* literal.
C25_WideMaximumAsInteger ==
    /\ Parsed
    /\ Target = Unsigned(WideBits)
    /\ Literal = Number("integer", MaxValue(Target))
    /\ DecodedExactly

\* A value of the wide signed type that a double rounds to another one.
C25_RoundedByDouble ==
    /\ Parsed
    /\ Target = Signed(WideBits)
    /\ Literal.literal = "floating"
    /\ InRange(Literal.value, Target)
    /\ parser.status = OK
    /\ Decoded = RoundToMantissa(Literal.value, DoubleMantissaBits)
    /\ Decoded # Literal.value

\* ------------------------------------------- the repetition of a generated id
\* GeneratedSpec follows the id that the manager generated last: watched is
\* that id, 0 before the first generation, and erasure records how it left
\* the registry since.  The caller of a START without an id notes the id
\* it was given when it takes the result, so that during a call watched and
\* erasure are those of the generation before.
GeneratedInit ==
    /\ sequences = <<>>
    /\ sequenceIdCounter \in Ids
    /\ timeout = 0
    /\ clock = 0
    /\ last = NoCall
    /\ created = {}
    /\ watched = 0
    /\ activity = NoActivity
    /\ maxSequenceNumber = MaxSequenceNumber
    /\ mutexOwner = 0
    /\ threads = <<>>
    /\ erasure = NoErasure
    /\ tensorsInfo = <<>>
    /\ requestBody = NoBody
    /\ parser = NotParsed

\* The call made is a START without an id: createSequence with
\* sequence_id == 0.
Generation == last.op = "processRequestedSpec" /\ last.ctl = SEQUENCE_START /\ last.id = 0

GeneratedReturn ==
    /\ ~Idle
    /\ last' = NoCall
    /\ watched' = IF Generation THEN last.specId ELSE watched
    /\ erasure' = IF Generation THEN NoErasure ELSE erasure
    /\ UNCHANGED <<sequences, sequenceIdCounter, timeout, clock, created, activity,
                   maxSequenceNumber, threadVars, codecVars>>

GeneratedNext ==
    \/ \E ctl \in ControlInputs, id \in Ids : ReuseProcessRequestedSpec(ctl, id)
    \/ \E id \in Ids : ReuseRemoveSequence(id)
    \/ ReuseRemoveTimedOutSequences(clock)
    \/ Tick
    \/ GeneratedReturn

GeneratedSpec == GeneratedInit /\ [][GeneratedNext]_vars

GeneratedTypeOK ==
    /\ watched \in Ids
    /\ erasure.by \in {"none", "removeSequence", "removeTimedOutSequences"}
    /\ watched = 0 => erasure = NoErasure
    /\ (watched # 0 /\ erasure = NoErasure) => sequenceExists(sequences, watched)

\* The id generated last has been removed since.
RemovedSinceIssued == watched # 0 /\ erasure # NoErasure

\* The counter as the call under way found it, or as it is.
CounterAtCall == IF Idle THEN sequenceIdCounter ELSE last.counterBefore

\* C31 as stated: after the sequence with the generated id g has been
\* removed, by removeSequence or by the sweep, the next START without an
\* id is given g again.  Refuted: a client may have started g again by
\* naming it, and the scan then passes it.
C31_RemovedGeneratedIdIssuedAgain ==
    (Generation /\ RemovedSinceIssued) => last.specId = watched

\* C31, amended: the counter stays at the id g generated last until the
\* next generation, and when g has been removed and is not in the registry
\* at the next START without an id, that START returns OK and is given g
\* again.
C31_AbsentGeneratedIdIssuedAgain ==
    /\ watched # 0 => CounterAtCall = watched
    /\ (Generation /\ RemovedSinceIssued /\ ~sequenceExists(last.seqsBefore, watched))
       => /\ last.status = OK
          /\ last.specId = watched
          /\ sequenceIdCounter = watched
          /\ sequences[watched] = Sequence(watched, clock)

IssuedAgainAfter(op) ==
    /\ Generation
    /\ RemovedSinceIssued
    /\ erasure.by = op
    /\ ~sequenceExists(last.seqsBefore, watched)
    /\ last.specId = watched
    /\ sequenceExists(sequences, watched)

\* g was removed by removeSequence and is issued again.
C31_Witness == IssuedAgainAfter("removeSequence")

\* g was erased by the sweep and is issued again.
C31_IssuedAgainAfterSweep == IssuedAgainAfter("removeTimedOutSequences")

\* g was removed, started again by a client that named it, and the
\* generation passes it.
C31_PassedWhenStartedAgain ==
    /\ Generation
    /\ RemovedSinceIssued
    /\ sequenceExists(last.seqsBefore, watched)
    /\ last.status = OK
    /\ last.specId # watched

====
